---- MODULE Spec2Model ----
(***************************************************************************)
(* FixLoop ("AI Continuous Tester"): the extension's test cycle, the       *)
(* TestRunner's framework selection and test execution, as a state         *)
(* machine.  One action is one run of the event loop: a handler from its   *)
(* call up to the next await whose promise is settled by the host (file    *)
(* system, subprocess, prompt, network).                                   *)
(*                                                                         *)
(* Strings are sequences of one-character strings, so that trim, replace,  *)
(* includes and toLowerCase are computed and not assumed.                  *)
(***************************************************************************)
EXTENDS Integers, Sequences, FiniteSets, TLC

VARIABLES
    workspaceFolders,   \* vscode.workspace.workspaceFolders is defined
    platform,           \* process.platform
    workspace,          \* the files of the workspace root, as detection sees them
    customTestCommand,  \* the setting aiTester.customTestCommand, untrimmed
    selectedFramework,  \* TestRunner.selectedFramework, the session lock
    fileWatcher,        \* extension.fileWatcher is set
    testingInterval,    \* extension.testingInterval is set
    status,             \* the state last given to updateStatusBar
    cycles,             \* the calls of runTestCycle, by slot
    lockWrites,         \* assignments of a command to selectedFramework since the last reset
    probe,              \* input of the function under test (function specifications)
    probeOut,           \* its result
    caught,             \* unexpected exceptions raised in the calls of runTestCycle so far
    batch,              \* the call of getSuggestions under study and its backend calls
    document,           \* the edits applied to the document of the active editor so far
    review,             \* what the user did in the showQuickFixOptions of each call
    registered          \* the file watchers and interval timers the host holds for the extension

vars == <<workspaceFolders, platform, workspace, customTestCommand, selectedFramework,
          fileWatcher, testingInterval, status, cycles, lockWrites, probe, probeOut,
          caught, batch, document, review, registered>>

-----------------------------------------------------------------------------
(* Bounds *)

\* Calls of runTestCycle that may be in flight together.
MaxCycles == 2

\* Unexpected exceptions raised in test cycles.
MaxFaults == 1
MaxEdits == 1

-----------------------------------------------------------------------------
(* JavaScript strings *)

\* null (and undefined); distinct from every string, the empty one included.
Null == <<"<null>">>

Truthy(v) == v # Null /\ v # <<>>

UpperCase == <<"A","B","C","D","E","F","G","H","I","J","K","L","M",
               "N","O","P","Q","R","S","T","U","V","W","X","Y","Z">>
LowerCase == <<"a","b","c","d","e","f","g","h","i","j","k","l","m",
               "n","o","p","q","r","s","t","u","v","w","x","y","z">>

toLowerChar(ch) ==
    IF \E i \in 1..26 : UpperCase[i] = ch
    THEN LowerCase[CHOOSE i \in 1..26 : UpperCase[i] = ch]
    ELSE ch

toLowerCase(s) == [i \in 1..Len(s) |-> toLowerChar(s[i])]

IsWhitespace(ch) == ch \in {" ", "\t", "\n", "\r"}

SetMin(S) == CHOOSE x \in S : \A y \in S : x <= y
SetMax(S) == CHOOSE x \in S : \A y \in S : x >= y

trim(s) ==
    LET keep == {i \in 1..Len(s) : ~IsWhitespace(s[i])}
    IN  IF keep = {} THEN <<>> ELSE SubSeq(s, SetMin(keep), SetMax(keep))

\* The positions at which sub occurs in s.
Occurrences(s, sub) ==
    {i \in 1..(Len(s) - Len(sub) + 1) : SubSeq(s, i, i + Len(sub) - 1) = sub}

includes(s, sub) == Occurrences(s, sub) # {}

startsWith(s, sub) == Len(sub) <= Len(s) /\ SubSeq(s, 1, Len(sub)) = sub

endsWith(s, sub) == Len(sub) <= Len(s) /\ SubSeq(s, Len(s) - Len(sub) + 1, Len(s)) = sub

\* String.prototype.replace with a string pattern: the first occurrence only.
replace(s, pat, rep) ==
    IF ~includes(s, pat) THEN s
    ELSE LET i == SetMin(Occurrences(s, pat))
         IN  SubSeq(s, 1, i - 1) \o rep \o SubSeq(s, i + Len(pat), Len(s))

-----------------------------------------------------------------------------
(* TestRunner: framework detection *)

NpmTestCmd == <<"n","p","m"," ","t","e","s","t">>
JestCmd == <<"n","p","x"," ","j","e","s","t"," ","-","-","n","o","-","c","o","v","e","r","a","g","e"," ","-","-","p","a","s","s","W","i","t","h","N","o","T","e","s","t","s">>
MochaCmd == <<"n","p","x"," ","m","o","c","h","a">>
VitestCmd == <<"n","p","x"," ","v","i","t","e","s","t"," ","r","u","n">>
PlaywrightCmd == <<"n","p","x"," ","p","l","a","y","w","r","i","g","h","t"," ","t","e","s","t">>
CypressCmd == <<"n","p","x"," ","c","y","p","r","e","s","s"," ","r","u","n">>
PytestCmd == <<"p","y","t","h","o","n"," ","-","m"," ","p","y","t","e","s","t"," ","-","v"," ","-","-","t","b","=","s","h","o","r","t">>
GoTestCmd == <<"g","o"," ","t","e","s","t"," ",".","/",".",".",".">>
CargoTestCmd == <<"c","a","r","g","o"," ","t","e","s","t">>
StrNpm == <<"n","p","m">>
StrNpmCmd == <<"n","p","m",".","c","m","d">>
StrNpx == <<"n","p","x">>
StrNpxCmd == <<"n","p","x",".","c","m","d">>
StrPython == <<"p","y","t","h","o","n">>
StrPythonExe == <<"p","y","t","h","o","n",".","e","x","e">>
StrPython3 == <<"p","y","t","h","o","n","3">>
StrTestPrefix == <<"t","e","s","t","_">>
StrPySuffix == <<".","p","y">>
StrTestPySuffix == <<"_","t","e","s","t",".","p","y">>

Platforms == {"linux", "win32"}

getNodeCommand(plat, command) ==
    IF plat = "win32"
    THEN replace(replace(command, StrNpm, StrNpmCmd), StrNpx, StrNpxCmd)
    ELSE command

getPythonCommand(plat, command) ==
    IF plat = "win32"
    THEN replace(command, StrPython, StrPythonExe)
    ELSE replace(command, StrPython, StrPython3)

\* A workspace root, as the detector's probes see it:
\*   pkg      package.json: "absent" (stat fails), "unreadable" (readFile throws),
\*            "invalid" (JSON.parse throws) or "valid"
\*   script   scripts.test of a valid package.json is set
\*   deps     the test frameworks among its dependencies and devDependencies
\*   markers  the marker files that exist
\*   dir      the entries readdir returns (<<>> also when readdir fails)
Deps == {"jest", "mocha", "vitest", "@playwright/test", "cypress"}
Markers == {"pytest.ini", "requirements.txt", "go.mod", "Cargo.toml"}

fileExists(ws, name) == name \in ws.markers

findPythonTestFiles(ws) ==
    SelectSeq(ws.dir, LAMBDA file :
        \/ (startsWith(file, StrTestPrefix) /\ endsWith(file, StrPySuffix))
        \/ endsWith(file, StrTestPySuffix))

Framework(name, command, confidence) ==
    [name |-> name, command |-> command, confidence |-> confidence]

IfSeq(cond, x) == IF cond THEN <<x>> ELSE <<>>

\* The candidates package.json contributes (lines 446-499), confidences in percent.
PackageJsonFrameworks(ws, plat) ==
    IfSeq(ws.script, Framework(<<"npm test (package.json script)">>,
                               getNodeCommand(plat, NpmTestCmd), 95))
    \o IfSeq("jest" \in ws.deps, Framework(<<"Jest">>, getNodeCommand(plat, JestCmd), 90))
    \o IfSeq("mocha" \in ws.deps, Framework(<<"Mocha">>, getNodeCommand(plat, MochaCmd), 85))
    \o IfSeq("vitest" \in ws.deps, Framework(<<"Vitest">>, getNodeCommand(plat, VitestCmd), 85))
    \o IfSeq("@playwright/test" \in ws.deps,
             Framework(<<"Playwright">>, getNodeCommand(plat, PlaywrightCmd), 80))
    \o IfSeq("cypress" \in ws.deps,
             Framework(<<"Cypress">>, getNodeCommand(plat, CypressCmd), 80))

\* The candidates of the sources after package.json (lines 502-537).
MarkerFrameworks(ws, plat) ==
    IfSeq(fileExists(ws, "pytest.ini") \/ fileExists(ws, "requirements.txt"),
          Framework(<<"pytest (detected config)">>, getPythonCommand(plat, PytestCmd), 90))
    \o IfSeq(Len(findPythonTestFiles(ws)) > 0,
             Framework(<<"pytest (", Len(findPythonTestFiles(ws)), " test files found)">>,
                       getPythonCommand(plat, PytestCmd), 80))
    \o IfSeq(fileExists(ws, "go.mod"), Framework(<<"Go test">>, GoTestCmd, 90))
    \o IfSeq(fileExists(ws, "Cargo.toml"), Framework(<<"Cargo test">>, CargoTestCmd, 90))

\* Array.prototype.sort((a, b) => b.confidence - a.confidence): stable, descending.
RECURSIVE InsertByConfidence(_, _)
InsertByConfidence(sorted, fw) ==
    IF sorted = <<>> THEN <<fw>>
    ELSE IF Head(sorted).confidence >= fw.confidence
         THEN <<Head(sorted)>> \o InsertByConfidence(Tail(sorted), fw)
         ELSE <<fw>> \o sorted

RECURSIVE SortByConfidence(_)
SortByConfidence(fws) ==
    IF fws = <<>> THEN <<>>
    ELSE InsertByConfidence(SortByConfidence(SubSeq(fws, 1, Len(fws) - 1)), fws[Len(fws)])

\* One try block holds every source: an exception of readFile or JSON.parse leaves
\* the block, and the catch returns what was pushed before it, which is nothing.
detectAllFrameworks(ws, plat) ==
    SortByConfidence(
        CASE ws.pkg = "absent" -> MarkerFrameworks(ws, plat)
          [] ws.pkg = "valid"  -> PackageJsonFrameworks(ws, plat) \o MarkerFrameworks(ws, plat)
          [] OTHER             -> <<>>)

-----------------------------------------------------------------------------
(* TestRunner: the parser of test output *)

StrAt == <<"a","t"," ">>
StrFileQuote == <<"F","i","l","e"," ","\"">>
StrQuoteLine == <<"\"",","," ","l","i","n","e"," ">>
StrDotPy == <<".","p","y">>
StrDotGo == <<".","g","o">>
StrErrorColon == <<"e","r","r","o","r",":">>
StrFail == <<"f","a","i","l">>
StrException == <<"e","x","c","e","p","t","i","o","n">>
StrAssertion == <<"a","s","s","e","r","t","i","o","n">>
StrReference == <<"r","e","f","e","r","e","n","c","e">>
StrType == <<"t","y","p","e">>
StrSyntax == <<"s","y","n","t","a","x">>
StrRuntime == <<"r","u","n","t","i","m","e">>
StrError == <<"e","r","r","o","r">>
StrUnknown == <<"u","n","k","n","o","w","n">>
JsExtensions == {<<".","j","s">>, <<".","t","s">>, <<".","j","s","x">>, <<".","t","s","x">>}
\* The glyphs U+2715 and U+2717, one character each.
GlyphX == <<"U+2715">>
GlyphBallotX == <<"U+2717">>

DigitChars == <<"0","1","2","3","4","5","6","7","8","9">>

IsDigit(ch) == \E d \in 1..10 : DigitChars[d] = ch

\* What . matches in a regular expression without the s flag.
IsDot(ch) == ch \notin {"\n", "\r"}

DigitValue(ch) == (CHOOSE d \in 1..10 : DigitChars[d] = ch) - 1

\* parseInt of a string of decimal digits.
RECURSIVE parseInt(_)
parseInt(s) ==
    IF s = <<>> THEN 0
    ELSE 10 * parseInt(SubSeq(s, 1, Len(s) - 1)) + DigitValue(s[Len(s)])

At(s, i, sub) == i >= 1 /\ i + Len(sub) - 1 <= Len(s) /\ SubSeq(s, i, i + Len(sub) - 1) = sub

\* The end of the longest run of digits that starts at from; from - 1 when there is none.
DigitsEnd(s, from) ==
    LET ends == {k \in from..Len(s) : \A m \in from..k : IsDigit(s[m])}
    IN  IF ends = {} THEN from - 1 ELSE SetMax(ends)

\* :(\d+):(\d+) matches at j.
ColonNumColonNum(s, j) ==
    LET d == DigitsEnd(s, j + 1)
    IN  At(s, j, <<":">>) /\ d >= j + 1 /\ At(s, d + 1, <<":">>)
        /\ d + 2 <= Len(s) /\ IsDigit(s[d + 2])

\* :(\d+): matches at j.
ColonNumColon(s, j) ==
    LET d == DigitsEnd(s, j + 1)
    IN  At(s, j, <<":">>) /\ d >= j + 1 /\ At(s, d + 1, <<":">>)

NoMatch == [file |-> Null, line |-> -1]

\* line.match(/at (.+):(\d+):(\d+)/): the leftmost start, the longest (.+).
AtMatch(s) ==
    LET ok(i, j) == /\ At(s, i, StrAt)
                    /\ j >= i + 4
                    /\ \A k \in (i + 3)..(j - 1) : IsDot(s[k])
                    /\ ColonNumColonNum(s, j)
        starts == {i \in 1..Len(s) : \E j \in 1..Len(s) : ok(i, j)}
    IN  IF starts = {} THEN NoMatch
        ELSE LET i == SetMin(starts)
                 j == SetMax({jj \in 1..Len(s) : ok(i, jj)})
             IN  [file |-> SubSeq(s, i + 3, j - 1),
                  line |-> parseInt(SubSeq(s, j + 1, DigitsEnd(s, j + 1)))]

\* line.match(/(.+X)REST/) for the extensions X in exts, REST being :(\d+):(\d+)
\* when column is TRUE and :(\d+): otherwise: the leftmost start, the longest
\* (.+); p is the position of the extension's dot.
SuffixMatch(s, exts, column) ==
    LET ok(i, p, x) == /\ p >= i + 1
                       /\ At(s, p, x)
                       /\ \A k \in i..(p - 1) : IsDot(s[k])
                       /\ IF column THEN ColonNumColonNum(s, p + Len(x))
                                    ELSE ColonNumColon(s, p + Len(x))
        hits(i) == {p \in 1..Len(s) : \E x \in exts : ok(i, p, x)}
        starts == {i \in 1..Len(s) : hits(i) # {}}
    IN  IF starts = {} THEN NoMatch
        ELSE LET i == SetMin(starts)
                 p == SetMax(hits(i))
                 x == CHOOSE y \in exts : ok(i, p, y)
                 j == p + Len(x)
             IN  [file |-> SubSeq(s, i, j - 1),
                  line |-> parseInt(SubSeq(s, j + 1, DigitsEnd(s, j + 1)))]

\* line.match(/File "(.+)", line (\d+)/)
FileLineMatch(s) ==
    LET ok(i, j) == /\ At(s, i, StrFileQuote)
                    /\ j >= i + 7
                    /\ \A k \in (i + 6)..(j - 1) : IsDot(s[k])
                    /\ At(s, j, StrQuoteLine)
                    /\ j + 8 <= Len(s) /\ IsDigit(s[j + 8])
        starts == {i \in 1..Len(s) : \E j \in 1..Len(s) : ok(i, j)}
    IN  IF starts = {} THEN NoMatch
        ELSE LET i == SetMin(starts)
                 j == SetMax({jj \in 1..Len(s) : ok(i, jj)})
             IN  [file |-> SubSeq(s, i + 6, j - 1),
                  line |-> parseInt(SubSeq(s, j + 8, DigitsEnd(s, j + 8)))]

FirstMatch(a, b) == IF a # NoMatch THEN a ELSE b

jestMatch(line) == FirstMatch(AtMatch(line), SuffixMatch(line, JsExtensions, TRUE))

pythonMatch(line) == FirstMatch(FileLineMatch(line), SuffixMatch(line, {StrDotPy}, FALSE))

goMatch(line) == SuffixMatch(line, {StrDotGo}, FALSE)

\* /a.*b/ matches in s.
ThenMatch(s, a, b) ==
    \E i \in Occurrences(s, a) : \E j \in Occurrences(s, b) :
        j >= i + Len(a) /\ \A k \in (i + Len(a))..(j - 1) : IsDot(s[k])

\* The i flag is modelled by lower-casing the line.
isErrorLine(line) ==
    LET l == toLowerCase(line)
    IN  \/ includes(l, StrErrorColon)
        \/ includes(l, StrFail)
        \/ includes(line, GlyphX)
        \/ includes(line, GlyphBallotX)
        \/ includes(l, StrException)
        \/ ThenMatch(l, StrAssertion, StrError)
        \/ ThenMatch(l, StrReference, StrError)
        \/ ThenMatch(l, StrType, StrError)
        \/ ThenMatch(l, StrSyntax, StrError)
        \/ ThenMatch(l, StrRuntime, StrError)

\* String.prototype.split('\n')
RECURSIVE splitLines(_)
splitLines(s) ==
    IF ~includes(s, <<"\n">>) THEN <<s>>
    ELSE LET i == SetMin(Occurrences(s, <<"\n">>))
         IN  <<SubSeq(s, 1, i - 1)>> \o splitLines(SubSeq(s, i + 1, Len(s)))

\* Array.prototype.join('\n')
RECURSIVE joinLines(_)
joinLines(lines) ==
    IF lines = <<>> THEN <<>>
    ELSE IF Len(lines) = 1 THEN lines[1]
    ELSE lines[1] \o <<"\n">> \o joinLines(Tail(lines))

\* currentIndex counts from 1 here.
getContextualError(lines, currentIndex) ==
    LET start == IF currentIndex - 1 >= 1 THEN currentIndex - 1 ELSE 1
        end == IF currentIndex + 1 <= Len(lines) THEN currentIndex + 1 ELSE Len(lines)
    IN  trim(joinLines(SubSeq(lines, start, end)))

TestError(file, line, message, type) ==
    [file |-> file, line |-> line, message |-> message, type |-> type]

\* A parser that tries the Python patterns before the JS/TS patterns.
parseLinePythonFirst(lines, i) ==
    LET line == lines[i]
    IN  IF pythonMatch(line) # NoMatch
        THEN <<TestError(pythonMatch(line).file, pythonMatch(line).line,
                         getContextualError(lines, i), "python")>>
        ELSE IF jestMatch(line) # NoMatch
        THEN <<TestError(jestMatch(line).file, jestMatch(line).line,
                         getContextualError(lines, i), "jest")>>
        ELSE IF goMatch(line) # NoMatch
        THEN <<TestError(goMatch(line).file, goMatch(line).line,
                         getContextualError(lines, i), "go")>>
        ELSE IF isErrorLine(line)
        THEN <<TestError(StrUnknown, 0, trim(line), "generic")>>
        ELSE <<>>

\* The errors one line contributes: one, or none.
parseLine(lines, i) ==
    LET line == lines[i]
    IN  IF jestMatch(line) # NoMatch
        THEN <<TestError(jestMatch(line).file, jestMatch(line).line,
                         getContextualError(lines, i), "jest")>>
        ELSE IF pythonMatch(line) # NoMatch
        THEN <<TestError(pythonMatch(line).file, pythonMatch(line).line,
                         getContextualError(lines, i), "python")>>
        ELSE IF goMatch(line) # NoMatch
        THEN <<TestError(goMatch(line).file, goMatch(line).line,
                         getContextualError(lines, i), "go")>>
        ELSE IF isErrorLine(line)
        THEN <<TestError(StrUnknown, 0, trim(line), "generic")>>
        ELSE <<>>

RECURSIVE parseFrom(_, _)
parseFrom(lines, i) ==
    IF i > Len(lines) THEN <<>> ELSE parseLine(lines, i) \o parseFrom(lines, i + 1)

parseErrors(output) == parseFrom(splitLines(output), 1)

-----------------------------------------------------------------------------
(* TestRunner: running the tests *)

StrNoFramework == <<"N","o"," ","t","e","s","t"," ","f","r","a","m","e","w","o","r","k"," ","d","e","t","e","c","t","e","d">>

failureIndicators ==
    << <<"F","A","I","L","E","D">>,
       <<"F","A","I","L">>,
       <<"f","a","i","l","e","d">>,
       <<"E","r","r","o","r",":">>,
       <<"A","s","s","e","r","t","i","o","n","E","r","r","o","r">>,
       <<"T","y","p","e","E","r","r","o","r">>,
       <<"R","e","f","e","r","e","n","c","e","E","r","r","o","r">>,
       <<"S","y","n","t","a","x","E","r","r","o","r">>,
       GlyphX,
       GlyphBallotX,
       <<"t","e","s","t"," ","f","a","i","l","e","d">>,
       <<"t","e","s","t","s"," ","f","a","i","l","e","d">>,
       <<"f","a","i","l","u","r","e">>,
       <<"f","a","i","l","u","r","e","s">> >>

containsTestFailures(output) ==
    \E n \in 1..Len(failureIndicators) :
        includes(toLowerCase(output), toLowerCase(failureIndicators[n]))

TestResults(hasErrors, errors, output) ==
    [hasErrors |-> hasErrors, errors |-> errors, output |-> output]

\* What runTests returns when getTestCommand resolved no command.
noFrameworkResult == TestResults(FALSE, <<>>, StrNoFramework)

OrEmpty(v) == IF Truthy(v) THEN v ELSE <<>>

\* A runTests that judges a run that exited with code 0 by its stderr alone.
execResultIgnoresIndicators(o) ==
    IF o.ok
    THEN LET output == o.stdout \o o.stderr
         IN  TestResults(Len(o.stderr) > 0, parseErrors(output), output)
    ELSE LET errorOutput == OrEmpty(o.stdout) \o OrEmpty(o.stderr)
         IN  TestResults(TRUE, parseErrors(errorOutput \o o.message),
                         IF Truthy(errorOutput) THEN errorOutput ELSE o.message)

\* A runTests that parses what the failed process wrote, without the message.
execResultParsesOutputOnly(o) ==
    IF o.ok
    THEN LET output == o.stdout \o o.stderr
         IN  TestResults(Len(o.stderr) > 0 \/ containsTestFailures(output),
                         parseErrors(output), output)
    ELSE LET errorOutput == OrEmpty(o.stdout) \o OrEmpty(o.stderr)
         IN  TestResults(TRUE, parseErrors(errorOutput),
                         IF Truthy(errorOutput) THEN errorOutput ELSE o.message)

\* What runTests returns once execAsync has settled.  An outcome o is
\*   ok       the promise was fulfilled (exit code 0 within the timeout)
\*   stdout, stderr   what the process wrote; on a rejection, the fields of the
\*            error, Null when the error carries none (a spawn failure)
\*   message  error.message of a rejection
execResult(o) ==
    IF o.ok
    THEN LET output == o.stdout \o o.stderr
         IN  TestResults(Len(o.stderr) > 0 \/ containsTestFailures(output),
                         parseErrors(output), output)
    ELSE LET errorOutput == OrEmpty(o.stdout) \o OrEmpty(o.stderr)
         IN  TestResults(TRUE, parseErrors(errorOutput \o o.message),
                         IF Truthy(errorOutput) THEN errorOutput ELSE o.message)

-----------------------------------------------------------------------------
(* TestRunner: choosing the command *)

Selection(path, cmd) == [path |-> path, cmd |-> cmd]

\* A selector that consults the lock before the custom command.
getTestCommandLockFirst(custom, lock) ==
    IF Truthy(lock) THEN Selection("locked", lock)
    ELSE IF Truthy(trim(custom)) THEN Selection("custom", trim(custom))
    ELSE Selection("detect", Null)

\* getTestCommand up to its first await: the custom command, then the lock,
\* then detection.
getTestCommand(custom, lock) ==
    IF Truthy(trim(custom)) THEN Selection("custom", trim(custom))
    ELSE IF Truthy(lock) THEN Selection("locked", lock)
    ELSE Selection("detect", Null)

\* A selector that takes the most confident candidate without asking.
afterDetectionGuessesFirst(detectedFrameworks) ==
    IF Len(detectedFrameworks) = 0 THEN Selection("none", Null)
    ELSE Selection("single", detectedFrameworks[1].command)

\* A selector that asks even when there is one candidate.
afterDetectionAlwaysPrompts(detectedFrameworks) ==
    IF Len(detectedFrameworks) = 0 THEN Selection("none", Null)
    ELSE Selection("pick", Null)

\* getTestCommand once detectAllFrameworks has returned.
afterDetection(detectedFrameworks) ==
    IF Len(detectedFrameworks) = 0 THEN Selection("none", Null)
    ELSE IF Len(detectedFrameworks) = 1 THEN Selection("single", detectedFrameworks[1].command)
    ELSE Selection("pick", Null)

\* showFrameworkPicker once showQuickPick has resolved; selected is the index of
\* the chosen item, 0 when the prompt was dismissed.
showFrameworkPicker(frameworks, selected) ==
    IF selected # 0 THEN Selection("picked", frameworks[selected].command)
    ELSE Selection("dismissed", Null)

-----------------------------------------------------------------------------
(* The inputs the environment supplies *)

WS(pkg, script, deps, markers, dir) ==
    [pkg |-> pkg, script |-> script, deps |-> deps, markers |-> markers, dir |-> dir]

StrTestAPy == <<"t","e","s","t","_","a",".","p","y">>
StrATestPy == <<"a","_","t","e","s","t",".","p","y">>
StrAPy == <<"a",".","p","y">>

\* The workspaces of the extension's specification: no candidate, one candidate,
\* two candidates.
Workspaces ==
    { WS("absent", FALSE, {}, {}, <<>>),
      WS("absent", FALSE, {}, {"go.mod"}, <<>>),
      WS("absent", FALSE, {}, {"go.mod", "Cargo.toml"}, <<>>) }

\* The values of the setting customTestCommand: unset, and a command with
\* blanks around it.
CustomCommands == { <<>>, <<" ","t"," ","-","q","\n">> }

StrOk == <<"o","k","\n">>
StrTwoFailing == <<"2"," ","f","a","i","l","i","n","g","\n">>
StrCommandFailed == <<"C","o","m","m","a","n","d"," ","f","a","i","l","e","d">>

Outcome(ok, stdout, stderr, message) ==
    [ok |-> ok, stdout |-> stdout, stderr |-> stderr, message |-> message]

\* How execAsync settles, in the extension's specification.
ExecOutcomes ==
    { Outcome(TRUE, StrOk, <<>>, Null),
      Outcome(FALSE, StrTwoFailing, <<>>, StrCommandFailed) }

\* execResult of the outcomes above, computed once.
execResults == [o \in ExecOutcomes |-> execResult(o)]

\* The indices of the items of the framework prompt, 0 for none: the npm script,
\* the dependencies, and the four sources after package.json.
Choices == 0..(1 + Cardinality(Deps) + 4)

Services == {"gemini", "openai", "claude"}

\* What the host holds: the watchers not disposed and the timers not cleared.
Registered(watchers, timers) == [watchers |-> watchers, timers |-> timers]

NoneRegistered == Registered(0, 0)

\* No call of getSuggestions under study.
NoBatch == [pc |-> "none"]

-----------------------------------------------------------------------------
(* The extension *)

Slots == 1..MaxCycles

\* A call of runTestCycle:
\*   pc        where it waits: "detect" (the probes of detectAllFrameworks), "pick"
\*             (the framework prompt), "exec" (the test process), "suggest" (the AI
\*             backends), "quickfix" (the suggestion prompt); "pickHidden" and
\*             "quickfixHidden" when the host has hidden the prompt and the call has
\*             not yet gone on; "none" when the slot holds no call
\*   detected  the candidates shown in the framework prompt
\*   cmd       the command getTestCommand returned
\*   res       the TestResults runTests returned
Cycle(pc, detected, cmd, res) ==
    [pc |-> pc, detected |-> detected, cmd |-> cmd, res |-> res]

NoResult == TestResults(FALSE, <<>>, <<>>)

NoCycle == Cycle("none", <<>>, Null, NoResult)

InFlight(c) == cycles[c].pc # "none"

\* window.showQuickPick in call c.  The host shows one quick input at a time: a
\* prompt that is open is hidden, and its promise resolves to undefined
\* (QuickInput.show: "Any other input UI will first fire an onDidHide event").
showQuickPick(cs, c, pc) ==
    [d \in Slots |->
        IF d = c THEN [cs[d] EXCEPT !.pc = pc]
        ELSE IF cs[d].pc = "pick" THEN [cs[d] EXCEPT !.pc = "pickHidden"]
        ELSE IF cs[d].pc = "quickfix" THEN [cs[d] EXCEPT !.pc = "quickfixHidden"]
        ELSE cs[d]]

\* A new call takes the first free slot.
FreeSlot(c) == ~InFlight(c) /\ \A d \in Slots : d < c => InFlight(d)

\* runTestCycle from its call to its first await that the host settles, in slot c.
\* With a command at hand (custom or locked) that is the await of execAsync,
\* otherwise the first probe of detectAllFrameworks.
runTestCycle(c) ==
    IF ~workspaceFolders
    THEN UNCHANGED <<status, cycles>>
    ELSE LET sel == getTestCommand(customTestCommand, selectedFramework)
         IN  /\ status' = "running"
             /\ cycles' = [cycles EXCEPT ![c] =
                    IF sel.path = "detect"
                    THEN Cycle("detect", <<>>, Null, NoResult)
                    ELSE Cycle("exec", <<>>, sel.cmd, NoResult)]

\* A start command that registers whatever is registered already.
startContinuousTestingUnguarded(useIntervalFallback) ==
    \E c \in Slots :
        /\ FreeSlot(c)
        /\ fileWatcher' = workspaceFolders
        /\ testingInterval' = useIntervalFallback
        /\ registered' = Registered(
               registered.watchers + (IF workspaceFolders THEN 1 ELSE 0),
               registered.timers + (IF useIntervalFallback THEN 1 ELSE 0))
        /\ IF workspaceFolders
           THEN runTestCycle(c)
           ELSE status' = "running" /\ UNCHANGED cycles
        /\ UNCHANGED <<workspaceFolders, platform, workspace, customTestCommand,
                       selectedFramework, lockWrites, probe, probeOut,
                       caught, batch, document, review>>

\* The command aiTester.start.
startContinuousTesting(useIntervalFallback) ==
    IF testingInterval \/ fileWatcher
    THEN UNCHANGED vars
    ELSE \E c \in Slots :
            /\ FreeSlot(c)
            /\ fileWatcher' = workspaceFolders
            /\ testingInterval' = useIntervalFallback
            /\ registered' = Registered(
                   registered.watchers + (IF workspaceFolders THEN 1 ELSE 0),
                   registered.timers + (IF useIntervalFallback THEN 1 ELSE 0))
            /\ IF workspaceFolders
               THEN runTestCycle(c)
               ELSE status' = "running" /\ UNCHANGED cycles
            /\ UNCHANGED <<workspaceFolders, platform, workspace, customTestCommand,
                           selectedFramework, lockWrites, probe, probeOut,
                           caught, batch, document, review>>

\* The command aiTester.stop.
stopContinuousTesting ==
    /\ testingInterval' = FALSE
    /\ fileWatcher' = FALSE
    /\ registered' = Registered(
           IF fileWatcher THEN registered.watchers - 1 ELSE registered.watchers,
           IF testingInterval THEN registered.timers - 1 ELSE registered.timers)
    /\ status' = "idle"
    /\ UNCHANGED <<workspaceFolders, platform, workspace, customTestCommand,
                   selectedFramework, cycles, lockWrites, probe, probeOut,
                   caught, batch, document, review>>

Trigger(c) ==
    /\ FreeSlot(c)
    /\ runTestCycle(c)
    /\ UNCHANGED <<workspaceFolders, platform, workspace, customTestCommand,
                   selectedFramework, fileWatcher, testingInterval, lockWrites,
                   probe, probeOut,
                   caught, batch,
                   document, review, registered>>

\* The command aiTester.runOnce.
runOnceCommand == \E c \in Slots : Trigger(c)

\* onDidChange of a watcher the host holds.
onDidChange == registered.watchers > 0 /\ \E c \in Slots : Trigger(c)

\* onDidCreate of a watcher the host holds.
onDidCreate == registered.watchers > 0 /\ \E c \in Slots : Trigger(c)

\* The callback of a timer the host holds.
onInterval == registered.timers > 0 /\ \E c \in Slots : Trigger(c)

\* A runTestCycle that takes the result without a command for a failed run and
\* goes on to the AI backends.
finishWithoutCommandAnalyzes(c) ==
    /\ status' = "error"
    /\ cycles' = [cycles EXCEPT ![c] = Cycle("suggest", <<>>, Null, noFrameworkResult)]

\* runTestCycle after runTests returned noFrameworkResult: hasErrors is false, the
\* tests count as passed and the call returns.
finishWithoutCommand(c) ==
    /\ status' = IF noFrameworkResult.hasErrors THEN "error" ELSE "success"
    /\ cycles' = [cycles EXCEPT ![c] = NoCycle]

\* The probes of detectAllFrameworks have settled in call c; getTestCommand goes on.
detectionSettles(c) ==
    /\ cycles[c].pc = "detect"
    /\ LET detectedFrameworks == detectAllFrameworks(workspace, platform)
           sel == afterDetection(detectedFrameworks)
       IN  CASE sel.path = "none" ->
                    /\ finishWithoutCommand(c)
                    /\ UNCHANGED <<selectedFramework, lockWrites>>
             [] sel.path = "single" ->
                    /\ selectedFramework' = sel.cmd
                    /\ lockWrites' = lockWrites + 1
                    /\ cycles' = [cycles EXCEPT ![c] = Cycle("exec", <<>>, sel.cmd, NoResult)]
                    /\ UNCHANGED status
             [] OTHER ->
                    /\ cycles' = showQuickPick(
                           [cycles EXCEPT ![c] =
                               Cycle("detect", detectedFrameworks, Null, NoResult)],
                           c, "pick")
                    /\ UNCHANGED <<selectedFramework, lockWrites, status>>
    /\ UNCHANGED <<workspaceFolders, platform, workspace, customTestCommand,
                   fileWatcher, testingInterval, probe, probeOut,
                   caught, batch,
                   document, review, registered>>

\* A framework prompt that never settles once the host has hidden it.
pickerResolvesOnlyShown(c, selected) ==
    /\ cycles[c].pc = "pick"
    /\ selected \in 0..Len(cycles[c].detected)
    /\ LET sel == showFrameworkPicker(cycles[c].detected, selected)
       IN  IF Truthy(sel.cmd)
           THEN /\ selectedFramework' = sel.cmd
                /\ lockWrites' = lockWrites + 1
                /\ cycles' = [cycles EXCEPT ![c] = Cycle("exec", <<>>, sel.cmd, NoResult)]
                /\ UNCHANGED status
           ELSE /\ finishWithoutCommand(c)
                /\ UNCHANGED <<selectedFramework, lockWrites>>
    /\ UNCHANGED <<workspaceFolders, platform, workspace, customTestCommand,
                   fileWatcher, testingInterval, probe, probeOut,
                   caught, batch, document, review, registered>>

\* The framework prompt of call c resolves: an item, or nothing (selected = 0) when
\* the user dismissed it or the host hid it.
pickerResolves(c, selected) ==
    /\ cycles[c].pc \in {"pick", "pickHidden"}
    /\ selected \in 0..Len(cycles[c].detected)
    /\ cycles[c].pc = "pickHidden" => selected = 0
    /\ LET sel == showFrameworkPicker(cycles[c].detected, selected)
       IN  IF Truthy(sel.cmd)
           THEN /\ selectedFramework' = sel.cmd
                /\ lockWrites' = lockWrites + 1
                /\ cycles' = [cycles EXCEPT ![c] = Cycle("exec", <<>>, sel.cmd, NoResult)]
                /\ UNCHANGED status
           ELSE /\ finishWithoutCommand(c)
                /\ UNCHANGED <<selectedFramework, lockWrites>>
    /\ UNCHANGED <<workspaceFolders, platform, workspace, customTestCommand,
                   fileWatcher, testingInterval, probe, probeOut,
                   caught, batch,
                   document, review, registered>>

\* A runTestCycle that analyses every run and asks the AI backends, passing or not.
execSettlesAlwaysAnalyzes(c, o) ==
    /\ cycles[c].pc = "exec"
    /\ status' = "error"
    /\ cycles' = [cycles EXCEPT ![c] = Cycle("suggest", <<>>, Null, execResults[o])]
    /\ UNCHANGED <<workspaceFolders, platform, workspace, customTestCommand,
                   selectedFramework, fileWatcher, testingInterval, lockWrites,
                   probe, probeOut,
                   caught, batch,
                   document, review, registered>>

\* execAsync of call c settles with outcome o; runTests returns and runTestCycle
\* goes on to its next await, the AI backends, or returns.
execSettles(c, o) ==
    /\ cycles[c].pc = "exec"
    /\ LET testResults == execResults[o]
       IN  IF testResults.hasErrors
           THEN /\ status' = "error"
                /\ cycles' = [cycles EXCEPT ![c] = Cycle("suggest", <<>>, Null, testResults)]
           ELSE /\ status' = "success"
                /\ cycles' = [cycles EXCEPT ![c] = NoCycle]
    /\ UNCHANGED <<workspaceFolders, platform, workspace, customTestCommand,
                   selectedFramework, fileWatcher, testingInterval, lockWrites,
                   probe, probeOut,
                   caught, batch,
                   document, review, registered>>

\* getSuggestions of call c returns the suggestions of the backends in answered.
suggestionsSettle(c, answered) ==
    /\ cycles[c].pc = "suggest"
    /\ cycles' = IF answered # {}
                 THEN showQuickPick(cycles, c, "quickfix")
                 ELSE [cycles EXCEPT ![c] = NoCycle]
    /\ UNCHANGED <<workspaceFolders, platform, workspace, customTestCommand,
                   selectedFramework, fileWatcher, testingInterval, status, lockWrites,
                   probe, probeOut,
                   caught, batch,
                   document, review, registered>>

\* The suggestion prompt of call c resolves and showQuickFixOptions returns.
quickFixResolves(c) ==
    /\ cycles[c].pc \in {"quickfix", "quickfixHidden"}
    /\ cycles' = [cycles EXCEPT ![c] = NoCycle]
    /\ UNCHANGED <<workspaceFolders, platform, workspace, customTestCommand,
                   selectedFramework, fileWatcher, testingInterval, status, lockWrites,
                   probe, probeOut,
                   caught, batch,
                   document, review, registered>>

\* A reset that forgets the history of the lock and keeps the command.
resetKeepsSelection ==
    /\ selectedFramework' = selectedFramework
    /\ lockWrites' = 0
    /\ UNCHANGED <<workspaceFolders, platform, workspace, customTestCommand,
                   fileWatcher, testingInterval, status, cycles, probe, probeOut,
                   caught, batch,
                   document, review, registered>>

\* TestRunner.resetFrameworkSelection
resetFrameworkSelection ==
    /\ selectedFramework' = Null
    /\ lockWrites' = 0
    /\ UNCHANGED <<workspaceFolders, platform, workspace, customTestCommand,
                   fileWatcher, testingInterval, status, cycles, probe, probeOut,
                   caught, batch,
                   document, review, registered>>

\* The user edits the setting customTestCommand.
configurationChanges(value) ==
    /\ value # customTestCommand
    /\ customTestCommand' = value
    /\ UNCHANGED <<workspaceFolders, platform, workspace, selectedFramework,
                   fileWatcher, testingInterval, status, cycles, lockWrites,
                   probe, probeOut,
                   caught, batch,
                   document, review, registered>>

\* Files of the workspace root appear or disappear.
workspaceChanges(ws) ==
    /\ ws # workspace
    /\ workspace' = ws
    /\ UNCHANGED <<workspaceFolders, platform, customTestCommand, selectedFramework,
                   fileWatcher, testingInterval, status, cycles, lockWrites,
                   probe, probeOut,
                   caught, batch,
                   document, review, registered>>

\* The state after activate.
Activated ==
    /\ selectedFramework = Null
    /\ fileWatcher = FALSE
    /\ testingInterval = FALSE
    /\ status = "idle"
    /\ cycles = [c \in Slots |-> NoCycle]
    /\ lockWrites = 0
    /\ probe = Null
    /\ probeOut = Null
    /\ caught = 0
    /\ batch = NoBatch
    /\ document = 0
    /\ review = [c \in Slots |-> <<>>]
    /\ registered = NoneRegistered

-----------------------------------------------------------------------------
(* The extension, under any interleaving of commands, triggers and settlements *)

Init ==
    /\ Activated
    /\ workspaceFolders \in BOOLEAN
    /\ platform = "linux"
    /\ workspace \in Workspaces
    /\ customTestCommand \in CustomCommands

Next ==
    \/ \E useIntervalFallback \in BOOLEAN : startContinuousTesting(useIntervalFallback)
    \/ stopContinuousTesting
    \/ runOnceCommand
    \/ onDidChange
    \/ onDidCreate
    \/ onInterval
    \/ \E c \in Slots : detectionSettles(c)
    \/ \E c \in Slots : \E selected \in Choices : pickerResolves(c, selected)
    \/ \E c \in Slots : \E o \in ExecOutcomes : execSettles(c, o)
    \/ \E c \in Slots : \E answered \in SUBSET Services : suggestionsSettle(c, answered)
    \/ \E c \in Slots : quickFixResolves(c)
    \/ resetFrameworkSelection
    \/ \E value \in CustomCommands : configurationChanges(value)
    \/ \E ws \in Workspaces : workspaceChanges(ws)

Spec == Init /\ [][Next]_vars

-----------------------------------------------------------------------------
(* Claims about the extension under Spec *)

\* Slot c holds no call before the step and a call after it: the step is a trigger
\* (a command, a watcher event, the timer) that called runTestCycle.
Started(c) == cycles[c].pc = "none" /\ cycles'[c].pc # "none"

\* Call c took the step.
Stepped(c) == InFlight(c) /\ cycles'[c] # cycles[c]

CyclesInFlight == {c \in Slots : InFlight(c)}

\* C1: at most one call of runTestCycle is in flight at any moment, whatever the
\* interleaving of triggers.
C1_AtMostOneCycleInFlight == Cardinality(CyclesInFlight) <= 1

\* C2: a call of getTestCommand made while the trimmed custom command is non-empty
\* returns the trimmed custom command, whatever the lock and the workspace hold; it
\* goes straight to the test process (no detection, no prompt) and leaves the lock
\* as it is.
C2_CustomCommandWins ==
    [][\A c \in Slots :
          (Started(c) /\ Truthy(trim(customTestCommand)))
          => /\ cycles'[c] = Cycle("exec", <<>>, trim(customTestCommand), NoResult)
             /\ selectedFramework' = selectedFramework
             /\ lockWrites' = lockWrites]_vars

\* C2's case: a call runs the trimmed custom command (which differs from the
\* untrimmed setting) while the lock holds another command.
C2_Witness ==
    \E c \in Slots :
        /\ cycles[c].pc = "exec"
        /\ cycles[c].cmd = trim(customTestCommand)
        /\ cycles[c].cmd # customTestCommand
        /\ Truthy(selectedFramework)
        /\ selectedFramework # cycles[c].cmd

\* C3: once the lock holds a command, it holds that command until
\* resetFrameworkSelection empties it, and every call of getTestCommand made
\* meanwhile with an empty custom command returns it without detection or prompt.
C3_LockedCommandReused ==
    [][Truthy(selectedFramework)
       => \/ selectedFramework' = Null
          \/ /\ selectedFramework' = selectedFramework
             /\ \A c \in Slots :
                   (Started(c) /\ ~Truthy(trim(customTestCommand)))
                   => cycles'[c] = Cycle("exec", <<>>, selectedFramework, NoResult)]_vars

\* C4: between two resets (and from the start to the first) a command is assigned
\* to the lock at most once.
C4_LockWrittenOnce == lockWrites <= 1

\* C5: a call whose detection yields two or more candidates shows the prompt before
\* it returns anything and leaves the lock alone; when the prompt resolves, either
\* the call runs and locks the command of one of the candidates shown, or (prompt
\* dismissed by the user or hidden by the host) it returns without a command, the
\* lock unchanged; and a call made with
\* empty custom command and empty lock starts with detection.
C5_PromptBeforeAmbiguousCommand ==
    [][\A c \in Slots :
          /\ (Stepped(c) /\ cycles[c].pc = "detect"
                /\ Len(detectAllFrameworks(workspace, platform)) >= 2)
             => /\ cycles'[c] = Cycle("pick", detectAllFrameworks(workspace, platform),
                                      Null, NoResult)
                /\ selectedFramework' = selectedFramework
          /\ (Stepped(c) /\ cycles[c].pc = "pick")
             => \/ \E i \in 1..Len(cycles[c].detected) :
                      /\ cycles'[c] = Cycle("exec", <<>>, cycles[c].detected[i].command,
                                            NoResult)
                      /\ selectedFramework' = cycles[c].detected[i].command
                \/ /\ cycles'[c] \in {NoCycle, [cycles[c] EXCEPT !.pc = "pickHidden"]}
                   /\ selectedFramework' = selectedFramework
          /\ (Stepped(c) /\ cycles[c].pc = "pickHidden")
             => /\ cycles'[c] = NoCycle
                /\ selectedFramework' = selectedFramework
          /\ (Started(c) /\ ~Truthy(trim(customTestCommand)) /\ ~Truthy(selectedFramework))
             => cycles'[c] = Cycle("detect", <<>>, Null, NoResult)]_vars

\* C5's case: the prompt is up with two or more candidates, the lock empty.
C5_Witness ==
    \E c \in Slots :
        /\ cycles[c].pc = "pick"
        /\ Len(cycles[c].detected) >= 2
        /\ selectedFramework = Null
        /\ ~Truthy(trim(customTestCommand))

\* C7: after resetFrameworkSelection (no assignment since) the lock is empty, and
\* a call made then with an empty custom command starts with detection and has no
\* command yet.
C7_ResetForcesDetection ==
    [][/\ lockWrites' = 0 => selectedFramework' = Null
       /\ \A c \in Slots :
             (Started(c) /\ lockWrites = 0 /\ ~Truthy(trim(customTestCommand)))
             => cycles'[c] = Cycle("detect", <<>>, Null, NoResult)]_vars

\* C7's case: one call still runs the command that was locked, the lock has been
\* reset since, and a later call is detecting again.
C7_Witness ==
    \E c, d \in Slots :
        /\ cycles[c].pc = "exec" /\ cycles[c].cmd = GoTestCmd
        /\ selectedFramework = Null /\ lockWrites = 0
        /\ cycles[d].pc = "detect"
        /\ ~Truthy(trim(customTestCommand))

-----------------------------------------------------------------------------
(* The selector over many workspaces: one call of runTestCycle at a time, the   *)
(* custom command unset, the workspace as it was at the start                   *)

PackageJsons ==
    {WS(pkg, FALSE, {}, {}, <<>>) : pkg \in {"absent", "unreadable", "invalid"}}
    \cup {WS("valid", script, deps, {}, <<>>) :
             script \in BOOLEAN, deps \in {{}} \cup {{d} : d \in Deps} \cup {Deps}}

Directories == { <<>>, <<StrAPy>>, <<StrTestAPy>>, <<StrAPy, StrATestPy, StrTestAPy>> }

AllWorkspaces ==
    {WS(p.pkg, p.script, p.deps, markers, dir) :
        p \in PackageJsons, markers \in SUBSET Markers, dir \in Directories}

InitSelect ==
    /\ Activated
    /\ workspaceFolders = TRUE
    /\ platform \in Platforms
    /\ workspace \in AllWorkspaces
    /\ customTestCommand = <<>>

NextSelect ==
    \/ (\A c \in Slots : ~InFlight(c)) /\ runOnceCommand
    \/ \E c \in Slots : detectionSettles(c)
    \/ \E c \in Slots : \E selected \in Choices : pickerResolves(c, selected)
    \/ \E c \in Slots : \E o \in ExecOutcomes : execSettles(c, o)
    \/ \E c \in Slots : \E answered \in SUBSET Services : suggestionsSettle(c, answered)
    \/ \E c \in Slots : quickFixResolves(c)
    \/ resetFrameworkSelection

SpecSelect == InitSelect /\ [][NextSelect]_vars

\* The signal sources that fire in a workspace, none of them failing.
FiringSources(ws) ==
    {src \in {"package.json", "pytest config", "python test files", "go.mod", "Cargo.toml"} :
        CASE src = "package.json" -> ws.pkg = "valid" /\ (ws.script \/ ws.deps # {})
          [] src = "pytest config" -> {"pytest.ini", "requirements.txt"} \cap ws.markers # {}
          [] src = "python test files" ->
                 \E i \in 1..Len(ws.dir) :
                    \/ startsWith(ws.dir[i], StrTestPrefix) /\ endsWith(ws.dir[i], StrPySuffix)
                    \/ endsWith(ws.dir[i], StrTestPySuffix)
          [] OTHER -> src \in ws.markers}

\* The commands a source stands for.
CommandsOf(src, plat) ==
    CASE src = "package.json" ->
            {getNodeCommand(plat, cmd) :
                cmd \in {NpmTestCmd, JestCmd, MochaCmd, VitestCmd, PlaywrightCmd, CypressCmd}}
      [] src \in {"pytest config", "python test files"} -> {getPythonCommand(plat, PytestCmd)}
      [] src = "go.mod" -> {GoTestCmd}
      [] OTHER -> {CargoTestCmd}

NoSourceFails(ws) == ws.pkg \in {"absent", "valid"}

\* C6, as claimed: in a workspace in which exactly one signal source fires (and
\* none fails), the call that detects returns a command of that source and stores
\* it as the lock, without a prompt.
C6_OneSourceNoPrompt ==
    [][\A c \in Slots :
          (Stepped(c) /\ cycles[c].pc = "detect" /\ NoSourceFails(workspace)
             /\ Cardinality(FiringSources(workspace)) = 1)
          => /\ cycles'[c].pc = "exec"
             /\ \E src \in FiringSources(workspace) :
                   cycles'[c].cmd \in CommandsOf(src, platform)
             /\ selectedFramework' = cycles'[c].cmd]_vars

\* C6, amended: when detection yields exactly one candidate, the call goes on to
\* run that candidate's command, a command of a source that fires, and stores it as
\* the lock, without a prompt.
C6_OneCandidateNoPrompt ==
    [][\A c \in Slots :
          (Stepped(c) /\ cycles[c].pc = "detect"
             /\ Len(detectAllFrameworks(workspace, platform)) = 1)
          => /\ cycles'[c] = Cycle("exec", <<>>,
                                   detectAllFrameworks(workspace, platform)[1].command,
                                   NoResult)
             /\ \E src \in FiringSources(workspace) :
                   cycles'[c].cmd \in CommandsOf(src, platform)
             /\ selectedFramework' = cycles'[c].cmd
             /\ lockWrites' = lockWrites + 1]_vars

\* C6's case: on Windows, the only candidate of a workspace (its npm script, or
\* pytest) runs and is the lock, written once.
C6_Witness ==
    \E c \in Slots :
        /\ platform = "win32"
        /\ Len(detectAllFrameworks(workspace, platform)) = 1
        /\ FiringSources(workspace) \in {{"package.json"}, {"python test files"}}
        /\ cycles[c].pc = "exec"
        /\ cycles[c].cmd # GoTestCmd
        /\ selectedFramework = cycles[c].cmd
        /\ lockWrites = 1

-----------------------------------------------------------------------------
(* detectAllFrameworks as a function of the workspace and the platform *)

DetectProbe(ws, plat) == [fn |-> "detectAllFrameworks", ws |-> ws, plat |-> plat]

\* detectAllFrameworks returns.
detectAllFrameworksReturns ==
    /\ probe.fn = "detectAllFrameworks"
    /\ probeOut = <<>>
    /\ probeOut' = <<detectAllFrameworks(probe.ws, probe.plat)>>
    /\ UNCHANGED <<workspaceFolders, platform, workspace, customTestCommand,
                   selectedFramework, fileWatcher, testingInterval, status, cycles,
                   lockWrites, probe, caught, batch,
                   document, review, registered>>

Idle ==
    /\ workspaceFolders = TRUE
    /\ platform = "linux"
    /\ workspace = WS("absent", FALSE, {}, {}, <<>>)
    /\ customTestCommand = <<>>
    /\ selectedFramework = Null
    /\ fileWatcher = FALSE
    /\ testingInterval = FALSE
    /\ status = "idle"
    /\ cycles = [c \in Slots |-> NoCycle]
    /\ lockWrites = 0
    /\ caught = 0
    /\ document = 0
    /\ review = [c \in Slots |-> <<>>]
    /\ registered = NoneRegistered

InitDetect ==
    /\ Idle
    /\ batch = NoBatch
    /\ probe \in {DetectProbe(ws, plat) : ws \in AllWorkspaces, plat \in Platforms}
    /\ probeOut = <<>>

NextDetect == detectAllFrameworksReturns

SpecDetect == InitDetect /\ [][NextDetect]_vars

HasCandidate(frameworks, name, command) ==
    \E i \in 1..Len(frameworks) :
        frameworks[i].name = name /\ frameworks[i].command = command

\* C8: whatever happens to package.json, each of the other sources whose marker is
\* present has its candidate in the list detectAllFrameworks returns.
C8_OtherSourcesStillDetected ==
    probeOut # <<>> =>
        LET ws == probe.ws
            python == getPythonCommand(probe.plat, PytestCmd)
            n == Len(findPythonTestFiles(ws))
        IN  /\ ({"pytest.ini", "requirements.txt"} \cap ws.markers # {}
                  => HasCandidate(probeOut[1], <<"pytest (detected config)">>, python))
            /\ (n > 0 => HasCandidate(probeOut[1], <<"pytest (", n, " test files found)">>,
                                      python))
            /\ ("go.mod" \in ws.markers => HasCandidate(probeOut[1], <<"Go test">>, GoTestCmd))
            /\ ("Cargo.toml" \in ws.markers
                  => HasCandidate(probeOut[1], <<"Cargo test">>, CargoTestCmd))

-----------------------------------------------------------------------------
(* runTests, from the settling of execAsync on, as a function of its outcome *)

StrWarn == <<"w","a","r","n","i","n","g",":"," ","s","l","o","w","\n">>
StrTestsFailed == <<"T","e","s","t","s",":"," ","1"," ","F","A","I","L","E","D",","," ","2"," ","p","a","s","s","e","d","\n">>
StrStackFrame == <<" "," "," "," ","a","t"," ","f"," ","(","a",".","j","s",":","1","0",":","5",")","\n">>
StrPyTraceback == <<"F","i","l","e"," ","\"","t",".","p","y","\"",","," ","l","i","n","e"," ","3","\n">>
StrGoFail == <<"x","_","t","e","s","t",".","g","o",":","7",":"," ","b","a","d","\n">>
StrNodeCommandFailed == <<"C","o","m","m","a","n","d"," ","f","a","i","l","e","d",":"," ","t"," ","-","q","\n">>
StrSpawnEnoent == <<"s","p","a","w","n"," ","t"," ","E","N","O","E","N","T">>

StdoutTexts ==
    { <<>>, StrOk, StrTwoFailing, StrTestsFailed, StrStackFrame, StrPyTraceback, StrGoFail,
      StrOk \o StrStackFrame }

StderrTexts == { <<>>, StrWarn, StrGoFail, StrTwoFailing }

\* What execAsync settles with: it resolves with stdout and stderr, or it rejects
\* (non-zero exit, timeout, spawn failure) with an error that carries what was
\* captured and a message; the message of a failed command ends with its stderr.
AllOutcomes ==
    {Outcome(TRUE, out, err, Null) : out \in StdoutTexts, err \in StderrTexts}
    \cup {Outcome(FALSE, out, err, StrNodeCommandFailed \o OrEmpty(err)) :
             out \in StdoutTexts \cup {Null}, err \in StderrTexts \cup {Null}}
    \cup {Outcome(FALSE, out, err, StrSpawnEnoent) : out \in {<<>>, Null}, err \in {<<>>, Null}}

RunProbe(o) == [fn |-> "runTests", outcome |-> o]

\* runTests returns.
runTestsReturns ==
    /\ probe.fn = "runTests"
    /\ probeOut = <<>>
    /\ probeOut' = <<execResult(probe.outcome)>>
    /\ UNCHANGED <<workspaceFolders, platform, workspace, customTestCommand,
                   selectedFramework, fileWatcher, testingInterval, status, cycles,
                   lockWrites, probe, caught, batch,
                   document, review, registered>>

InitRunTests ==
    /\ Idle
    /\ batch = NoBatch
    /\ probe \in {RunProbe(o) : o \in AllOutcomes}
    /\ probeOut = <<>>

NextRunTests == runTestsReturns

SpecRunTests == InitRunTests /\ [][NextRunTests]_vars

\* C9: the result of a run has hasErrors whenever the process failed or its
\* stdout followed by its stderr contains, in any letter case, a failure indicator.
C9_FailureOrIndicatorMeansErrors ==
    probeOut # <<>> =>
        LET o == probe.outcome
            combined == OrEmpty(o.stdout) \o OrEmpty(o.stderr)
        IN  (~o.ok \/ \E i \in 1..Len(failureIndicators) :
                         includes(toLowerCase(combined), toLowerCase(failureIndicators[i])))
               => probeOut[1].hasErrors

\* C9's case: a process that exits with code 0, writes "2 failing" to stdout and
\* nothing to stderr, has a result with hasErrors.
C9_Witness ==
    /\ probeOut # <<>>
    /\ probe.outcome = Outcome(TRUE, StrTwoFailing, <<>>, Null)
    /\ probeOut[1].hasErrors

-----------------------------------------------------------------------------
(* AITestingService: one call of getSuggestions and its backend calls *)

\* Three backticks; a backtick is the character U+0060.
StrFence == <<"U+0060","U+0060","U+0060">>

\* What \w matches.
IsWordChar(ch) ==
    \/ \E i \in 1..26 : ch \in {UpperCase[i], LowerCase[i]}
    \/ IsDigit(ch)
    \/ ch = "_"

\* text.split(fence)[0].substring(0, 300).trim()
extractSuggestion(text) ==
    LET beforeCode == IF includes(text, StrFence)
                      THEN SubSeq(text, 1, SetMin(Occurrences(text, StrFence)) - 1)
                      ELSE text
    IN  trim(SubSeq(beforeCode, 1, IF Len(beforeCode) < 300 THEN Len(beforeCode) ELSE 300))

\* The end of the longest run of word characters that starts at from; from - 1
\* when there is none.
WordEnd(s, from) ==
    LET ends == {k \in from..Len(s) : \A m \in from..k : IsWordChar(s[m])}
    IN  IF ends = {} THEN from - 1 ELSE SetMax(ends)

\* cleanedBlock before its trim, from position i on: every fence with the word
\* and the newline after it, or with the newline before it, is removed.
RECURSIVE stripFences(_, _)
stripFences(s, i) ==
    IF i > Len(s) THEN <<>>
    ELSE IF At(s, i, StrFence)
    THEN LET w == WordEnd(s, i + 3)
         IN  stripFences(s, IF At(s, w + 1, <<"\n">>) THEN w + 2 ELSE w + 1)
    ELSE IF At(s, i, <<"\n">> \o StrFence) THEN stripFences(s, i + 4)
    ELSE <<s[i]>> \o stripFences(s, i + 1)

\* The first match of /FENCE[\s\S]*?FENCE/ in text: Null when there is none.
firstCodeBlock(text) ==
    LET fences == Occurrences(text, StrFence)
        closing == {j \in fences : j >= SetMin(fences) + 3}
    IN  IF fences = {} \/ closing = {} THEN Null
        ELSE SubSeq(text, SetMin(fences), SetMin(closing) + 2)

\* undefined is Null.
extractCodeFix(text) ==
    IF firstCodeBlock(text) = Null THEN Null
    ELSE LET cleanedBlock == trim(stripFences(firstCodeBlock(text), 1))
         IN  IF Len(cleanedBlock) > 10 THEN cleanedBlock ELSE Null

AISuggestion(service, suggestion, fix, confidence) ==
    [service |-> service, suggestion |-> suggestion, fix |-> fix, confidence |-> confidence]

\* The order in which getSuggestions calls the backends.
ServiceOrder == <<"gemini", "openai", "claude">>

\* The service and the confidence (in percent) each backend signs its suggestion with.
ServiceName == [gemini |-> "Gemini", openai |-> "ChatGPT", claude |-> "Claude"]
Confidence == [gemini |-> 80, openai |-> 85, claude |-> 90]

StrFixText == <<"G","u","a","r","d"," ","i","t",".","\n","U+0060","U+0060","U+0060","j","s","\n","i","f"," ","(","a",")"," ","{"," ","b","(","a",")",";"," ","}","\n","U+0060","U+0060","U+0060","\n">>
StrPlainText == <<" ","C","h","e","c","k"," ","t","h","e"," ","i","m","p","o","r","t","s","."," ">>

\* How axios.post settles: it rejects (timeout after 10 s, transport failure, a
\* status outside 2xx), or it resolves with a response whose data has no body
\* ("nodata"), lacks the text field ("nofield"), holds something that is no string
\* there ("nonstring"), or holds a text, which may be empty.
HttpResponse(kind, text) == [kind |-> kind, text |-> text]

HttpResponses ==
    {HttpResponse(kind, <<>>) :
        kind \in {"timeout", "network", "status", "nodata", "nofield", "nonstring"}}
    \cup {HttpResponse("text", text) : text \in {<<>>, StrFixText, StrPlainText}}

\* What a promise settles with; the value is a sequence, empty for null.
Settled(st, value) == [status |-> st, value |-> value]

\* A backend that posts its request without a key.
postsRequestWithoutKey(rejected, apiKey) == ~rejected

\* get<Backend>Suggestion once secrets.get has settled: whether it goes on to post.
\* rejected: secrets.get threw; apiKey: the key, Null when there is none.
postsRequest(rejected, apiKey) == ~rejected /\ Truthy(apiKey)

\* get<Backend>Suggestion once axios.post has settled: every exception (a rejected
\* post, a read of a field of undefined, a split of what is no string) ends in the
\* catch block, which returns null.
backendSuggestion(b, response) ==
    IF response.kind \in {"timeout", "network", "status", "nodata", "nonstring"}
    THEN Settled("fulfilled", <<>>)
    ELSE IF response.kind = "nofield" \/ ~Truthy(response.text)
    THEN Settled("fulfilled", <<>>)
    ELSE Settled("fulfilled",
                 <<AISuggestion(ServiceName[b], extractSuggestion(response.text),
                                extractCodeFix(response.text), Confidence[b])>>)

\* backendSuggestion of the responses above, computed once.
backendSuggestions ==
    [b \in Services |-> [response \in HttpResponses |-> backendSuggestion(b, response)]]

\* The calls of a batch: for each backend its position ("none", "secret", "http",
\* "settled"), what the host answered to it last (the secret store: "key", "nokey",
\* "rejected"; then the HTTP response), and what its promise settled with.
Call(pc, answer, result) == [pc |-> pc, answer |-> answer, result |-> result]

NoAnswer == HttpResponse("none", <<>>)

NotCalled == Call("none", NoAnswer, Settled("pending", <<>>))

\* A batch that resolves with the first call that settles.
anySettled(calls) == \E b \in Services : calls[b].pc = "settled"

\* Promise.allSettled(promises) resolves.
allSettled(calls) == \A b \in Services : calls[b].pc \in {"none", "settled"}

\* A batch that gives nothing when one of its calls gave nothing (Promise.all).
fulfilledValuesAllOrNothing(calls, i) ==
    LET value(b) == IF calls[b].pc = "settled" THEN calls[b].result.value ELSE <<>>
    IN  IF \E b \in Services : calls[b].pc = "settled" /\ calls[b].result.value = <<>>
        THEN <<>>
        ELSE value("gemini") \o value("openai") \o value("claude")

RECURSIVE fulfilledValues(_, _)
\* results.forEach: the values of the fulfilled promises that are not null, in
\* the order of the promises, from the i-th backend on.
fulfilledValues(calls, i) ==
    IF i > Len(ServiceOrder) THEN <<>>
    ELSE LET call == calls[ServiceOrder[i]]
         IN  (IF call.pc = "settled" /\ call.result.status = "fulfilled"
              THEN call.result.value ELSE <<>>)
             \o fulfilledValues(calls, i + 1)

\* getSuggestions after the calls have changed: it returns when allSettled resolves.
resume(b) ==
    IF allSettled(b.calls)
    THEN [b EXCEPT !.pc = "returned", !.suggestions = fulfilledValues(b.calls, 1)]
    ELSE b

SuggestProbe(enabledServices, secrets) ==
    [fn |-> "getSuggestions", enabledServices |-> enabledServices, secrets |-> secrets]

\* getSuggestions is called: it calls every enabled backend, each of which runs
\* up to its await of secrets.get, and awaits Promise.allSettled.
getSuggestions ==
    /\ probe.fn = "getSuggestions"
    /\ batch.pc = "none"
    /\ batch' = resume([pc |-> "awaiting",
                        calls |-> [b \in Services |->
                                      IF b \in probe.enabledServices
                                      THEN Call("secret", NoAnswer, Settled("pending", <<>>))
                                      ELSE NotCalled],
                        posts |-> {},
                        suggestions |-> <<>>])
    /\ UNCHANGED <<workspaceFolders, platform, workspace, customTestCommand,
                   selectedFramework, fileWatcher, testingInterval, status, cycles,
                   lockWrites, probe, probeOut, caught,
                   document, review, registered>>

\* secrets.get of backend b settles; the backend posts its request or returns null.
secretsGetSettles(b, rejected) ==
    /\ batch.pc = "awaiting"
    /\ batch.calls[b].pc = "secret"
    /\ LET apiKey == IF b \in probe.secrets THEN <<"k">> ELSE Null
           answer == HttpResponse(IF rejected THEN "rejected"
                                  ELSE IF Truthy(apiKey) THEN "key" ELSE "nokey", <<>>)
       IN  batch' =
             IF postsRequest(rejected, apiKey)
             THEN [batch EXCEPT !.calls[b] = Call("http", answer, Settled("pending", <<>>)),
                                !.posts = @ \cup {b}]
             ELSE resume([batch EXCEPT
                             !.calls[b] = Call("settled", answer, Settled("fulfilled", <<>>))])
    /\ UNCHANGED <<workspaceFolders, platform, workspace, customTestCommand,
                   selectedFramework, fileWatcher, testingInterval, status, cycles,
                   lockWrites, probe, probeOut, caught,
                   document, review, registered>>

\* axios.post of backend b settles with response.
axiosPostSettles(b, response) ==
    /\ batch.pc = "awaiting"
    /\ batch.calls[b].pc = "http"
    /\ batch' = resume([batch EXCEPT
                           !.calls[b] = Call("settled", response,
                                             backendSuggestions[b][response])])
    /\ UNCHANGED <<workspaceFolders, platform, workspace, customTestCommand,
                   selectedFramework, fileWatcher, testingInterval, status, cycles,
                   lockWrites, probe, probeOut, caught,
                   document, review, registered>>

InitSuggest ==
    /\ Idle
    /\ batch = NoBatch
    /\ probe \in {SuggestProbe(enabledServices, secrets) :
                     enabledServices \in SUBSET Services, secrets \in SUBSET Services}
    /\ probeOut = <<>>

NextSuggest ==
    \/ getSuggestions
    \/ \E b \in Services : \E rejected \in BOOLEAN : secretsGetSettles(b, rejected)
    \/ \E b \in Services : \E response \in HttpResponses : axiosPostSettles(b, response)

SpecSuggest == InitSuggest /\ [][NextSuggest]_vars

\* Backend b answered the batch with a response text that is not empty.
GaveText(b) ==
    /\ batch.calls[b].pc = "settled"
    /\ batch.calls[b].answer.kind = "text"
    /\ batch.calls[b].answer.text # <<>>

\* C11: the list getSuggestions returns holds one suggestion of each enabled
\* backend that answered with a non-empty text, in the order of the calls, and
\* nothing else, whatever the other backends answered.
C11_SuggestionsOfThoseThatAnswered ==
    batch.pc = "returned" =>
        LET answered == SelectSeq(ServiceOrder,
                                  LAMBDA b : b \in probe.enabledServices /\ GaveText(b))
        IN  /\ Len(batch.suggestions) = Len(answered)
            /\ \A i \in 1..Len(answered) :
                  batch.suggestions[i].service = ServiceName[answered[i]]

\* C11's case: three backends enabled, Gemini timed out, and the list holds the
\* suggestions of ChatGPT and Claude.
C11_Witness ==
    /\ batch.pc = "returned"
    /\ probe.enabledServices = Services
    /\ batch.calls["gemini"].answer.kind = "timeout"
    /\ Len(batch.suggestions) = 2
    /\ batch.suggestions[1].service = "ChatGPT"
    /\ batch.suggestions[2].service = "Claude"

\* C12: from the moment getSuggestions awaits, the backends called are exactly the
\* enabled ones, and when it has returned no call is outstanding.
C12_AllIssuedAllSettled ==
    /\ batch.pc \in {"awaiting", "returned"}
          => \A b \in Services : (batch.calls[b].pc # "none") <=> (b \in probe.enabledServices)
    /\ batch.pc = "returned"
          => \A b \in Services : batch.calls[b].pc \in {"none", "settled"}

\* C12's case: two backends enabled; getSuggestions has returned after both
\* requests were answered, the third backend never called.
C12_Witness ==
    /\ batch.pc = "returned"
    /\ probe.enabledServices = {"gemini", "claude"}
    /\ batch.posts = {"gemini", "claude"}
    /\ batch.calls["gemini"].pc = "settled"
    /\ batch.calls["claude"].pc = "settled"
    /\ batch.calls["openai"].pc = "none"

\* C13: an enabled backend whose credential is absent never posts a request; its
\* promise is fulfilled with null and the list has no suggestion of it; and the
\* other enabled backends have been called.
C13_MissingCredentialGivesNull ==
    batch.pc \in {"awaiting", "returned"} =>
        \A b \in probe.enabledServices \ probe.secrets :
            /\ b \notin batch.posts
            /\ batch.calls[b].pc = "settled"
                  => batch.calls[b].result = Settled("fulfilled", <<>>)
            /\ \A i \in 1..Len(batch.suggestions) :
                  batch.suggestions[i].service # ServiceName[b]
            /\ \A other \in probe.enabledServices : batch.calls[other].pc # "none"

\* C13's case: Gemini has no key and was told so, ChatGPT has one; the list holds
\* the suggestion of ChatGPT alone, and one request was posted.
C13_Witness ==
    /\ batch.pc = "returned"
    /\ probe.enabledServices = {"gemini", "openai"}
    /\ probe.secrets = {"openai"}
    /\ batch.calls["gemini"].answer.kind = "nokey"
    /\ batch.posts = {"openai"}
    /\ Len(batch.suggestions) = 1
    /\ batch.suggestions[1].service = "ChatGPT"

-----------------------------------------------------------------------------
(* The extension with unexpected exceptions *)

StrCanceled == <<"C","a","n","c","e","l","e","d">>

\* What the catch block of runTests returns for an exception that is no failure
\* of the test process: the error carries no stdout and no stderr.
thrownResult == execResult(Outcome(FALSE, Null, Null, StrCanceled))

\* showQuickPick of the framework prompt of call c rejects.  The exception leaves
\* getTestCommand inside the try block of runTests, whose catch block turns it into
\* the result of a failed run; runTestCycle goes on with that result.
pickerRejects(c) ==
    /\ caught < MaxFaults
    /\ cycles[c].pc \in {"pick", "pickHidden"}
    /\ caught' = caught + 1
    /\ IF thrownResult.hasErrors
       THEN /\ status' = "error"
            /\ cycles' = [cycles EXCEPT ![c] = Cycle("suggest", <<>>, Null, thrownResult)]
       ELSE /\ status' = "success"
            /\ cycles' = [cycles EXCEPT ![c] = NoCycle]
    /\ UNCHANGED <<workspaceFolders, platform, workspace, customTestCommand,
                   selectedFramework, fileWatcher, testingInterval, lockWrites,
                   probe, probeOut, batch,
                   document, review, registered>>

\* An exception is raised in call c after runTests has returned (by analyzeErrors,
\* getSuggestions or showQuickFixOptions): the catch block of runTestCycle sets the
\* status, logs the error, and runTestCycle returns.
cycleThrows(c) ==
    /\ caught < MaxFaults
    /\ cycles[c].pc \in {"suggest", "quickfix", "quickfixHidden"}
    /\ caught' = caught + 1
    /\ status' = "error"
    /\ cycles' = [cycles EXCEPT ![c] = NoCycle]
    /\ UNCHANGED <<workspaceFolders, platform, workspace, customTestCommand,
                   selectedFramework, fileWatcher, testingInterval, lockWrites,
                   probe, probeOut, batch,
                   document, review, registered>>

NextFault ==
    \/ Next
    \/ \E c \in Slots : pickerRejects(c)
    \/ \E c \in Slots : cycleThrows(c)

SpecFault == Init /\ [][NextFault]_vars

\* An exception was raised in call c.
Threw(c) == caught' = caught + 1 /\ Stepped(c)

\* C14: an exception raised at any step of a call of runTestCycle ends the call
\* there (it is caught at the boundary of the cycle, and the slot is free for the
\* next trigger), with the status error, the lock, the watcher, the timer and the
\* other calls as they were.
C14_ExceptionEndsCycleInError ==
    [][\A c \in Slots :
          Threw(c)
          => /\ cycles'[c] = NoCycle
             /\ status' = "error"
             /\ selectedFramework' = selectedFramework
             /\ fileWatcher' = fileWatcher
             /\ testingInterval' = testingInterval
             /\ \A d \in Slots \ {c} : cycles'[d] = cycles[d]]_vars

-----------------------------------------------------------------------------
(* ErrorAnalyzer *)

\* The categories, in the order in which getErrorCategory tries them.
\* A categorization that tries Undefined Variable before Type Error.
getErrorCategoryUndefinedFirst(message) ==
    LET lowerMessage == toLowerCase(message)
    IN  IF includes(lowerMessage, <<"s","y","n","t","a","x","e","r","r","o","r">>)
           \/ includes(lowerMessage, <<"s","y","n","t","a","x"," ","e","r","r","o","r">>)
        THEN "Syntax Error"
        ELSE IF includes(lowerMessage, <<"u","n","d","e","f","i","n","e","d">>)
                \/ includes(lowerMessage, <<"n","u","l","l">>)
                \/ includes(lowerMessage, <<"c","a","n","n","o","t"," ","r","e","a","d"," ","p","r","o","p","e","r","t","y">>)
                \/ includes(lowerMessage, <<"c","a","n","n","o","t"," ","a","c","c","e","s","s"," ","b","e","f","o","r","e"," ","i","n","i","t","i","a","l","i","z","a","t","i","o","n">>)
        THEN "Undefined Variable"
        ELSE IF includes(lowerMessage, <<"r","e","f","e","r","e","n","c","e","e","r","r","o","r">>)
                \/ includes(lowerMessage, <<"r","e","f","e","r","e","n","c","e"," ","e","r","r","o","r">>)
        THEN "Reference Error"
        ELSE IF includes(lowerMessage, <<"a","s","s","e","r","t","i","o","n","e","r","r","o","r">>)
                \/ includes(lowerMessage, <<"a","s","s","e","r","t","i","o","n">>)
                \/ includes(lowerMessage, <<"e","x","p","e","c","t","e","d">>)
                \/ includes(lowerMessage, <<"t","o","B","e">>)
                \/ includes(lowerMessage, <<"t","o","E","q","u","a","l">>)
        THEN "Test Assertion"
        ELSE IF includes(lowerMessage, <<"t","y","p","e","e","r","r","o","r">>)
                \/ includes(lowerMessage, <<"t","y","p","e"," ","e","r","r","o","r">>)
        THEN "Type Error"
        ELSE IF includes(lowerMessage, <<"m","o","d","u","l","e">>)
                \/ includes(lowerMessage, <<"i","m","p","o","r","t">>)
                \/ includes(lowerMessage, <<"r","e","q","u","i","r","e">>)
                \/ includes(lowerMessage, <<"c","a","n","n","o","t"," ","r","e","s","o","l","v","e">>)
        THEN "Module Error"
        ELSE IF includes(lowerMessage, <<"p","r","o","m","i","s","e">>)
                \/ includes(lowerMessage, <<"a","s","y","n","c">>)
                \/ includes(lowerMessage, <<"a","w","a","i","t">>)
                \/ includes(lowerMessage, <<"u","n","h","a","n","d","l","e","d"," ","r","e","j","e","c","t","i","o","n">>)
        THEN "Async Error"
        ELSE IF includes(lowerMessage, <<"n","e","t","w","o","r","k">>)
                \/ includes(lowerMessage, <<"f","e","t","c","h">>)
                \/ includes(lowerMessage, <<"x","h","r">>)
                \/ includes(lowerMessage, <<"t","i","m","e","o","u","t">>)
        THEN "Network Error"
        ELSE IF includes(lowerMessage, <<"f","i","l","e">>)
                \/ includes(lowerMessage, <<"p","a","t","h">>)
                \/ includes(lowerMessage, <<"d","i","r","e","c","t","o","r","y">>)
                \/ includes(lowerMessage, <<"e","n","o","e","n","t">>)
        THEN "File System Error"
        ELSE "Other"

getErrorCategory(message) ==
    LET lowerMessage == toLowerCase(message)
    IN  IF includes(lowerMessage, <<"s","y","n","t","a","x","e","r","r","o","r">>)
           \/ includes(lowerMessage, <<"s","y","n","t","a","x"," ","e","r","r","o","r">>)
        THEN "Syntax Error"
        ELSE IF includes(lowerMessage, <<"t","y","p","e","e","r","r","o","r">>)
                \/ includes(lowerMessage, <<"t","y","p","e"," ","e","r","r","o","r">>)
        THEN "Type Error"
        ELSE IF includes(lowerMessage, <<"r","e","f","e","r","e","n","c","e","e","r","r","o","r">>)
                \/ includes(lowerMessage, <<"r","e","f","e","r","e","n","c","e"," ","e","r","r","o","r">>)
        THEN "Reference Error"
        ELSE IF includes(lowerMessage, <<"a","s","s","e","r","t","i","o","n","e","r","r","o","r">>)
                \/ includes(lowerMessage, <<"a","s","s","e","r","t","i","o","n">>)
                \/ includes(lowerMessage, <<"e","x","p","e","c","t","e","d">>)
                \/ includes(lowerMessage, <<"t","o","B","e">>)
                \/ includes(lowerMessage, <<"t","o","E","q","u","a","l">>)
        THEN "Test Assertion"
        ELSE IF includes(lowerMessage, <<"u","n","d","e","f","i","n","e","d">>)
                \/ includes(lowerMessage, <<"n","u","l","l">>)
                \/ includes(lowerMessage, <<"c","a","n","n","o","t"," ","r","e","a","d"," ","p","r","o","p","e","r","t","y">>)
                \/ includes(lowerMessage, <<"c","a","n","n","o","t"," ","a","c","c","e","s","s"," ","b","e","f","o","r","e"," ","i","n","i","t","i","a","l","i","z","a","t","i","o","n">>)
        THEN "Undefined Variable"
        ELSE IF includes(lowerMessage, <<"m","o","d","u","l","e">>)
                \/ includes(lowerMessage, <<"i","m","p","o","r","t">>)
                \/ includes(lowerMessage, <<"r","e","q","u","i","r","e">>)
                \/ includes(lowerMessage, <<"c","a","n","n","o","t"," ","r","e","s","o","l","v","e">>)
        THEN "Module Error"
        ELSE IF includes(lowerMessage, <<"p","r","o","m","i","s","e">>)
                \/ includes(lowerMessage, <<"a","s","y","n","c">>)
                \/ includes(lowerMessage, <<"a","w","a","i","t">>)
                \/ includes(lowerMessage, <<"u","n","h","a","n","d","l","e","d"," ","r","e","j","e","c","t","i","o","n">>)
        THEN "Async Error"
        ELSE IF includes(lowerMessage, <<"n","e","t","w","o","r","k">>)
                \/ includes(lowerMessage, <<"f","e","t","c","h">>)
                \/ includes(lowerMessage, <<"x","h","r">>)
                \/ includes(lowerMessage, <<"t","i","m","e","o","u","t">>)
        THEN "Network Error"
        ELSE IF includes(lowerMessage, <<"f","i","l","e">>)
                \/ includes(lowerMessage, <<"p","a","t","h">>)
                \/ includes(lowerMessage, <<"d","i","r","e","c","t","o","r","y">>)
                \/ includes(lowerMessage, <<"e","n","o","e","n","t">>)
        THEN "File System Error"
        ELSE "Other"

RECURSIVE categorizeErrorsWithoutOther(_)
\* A count map that leaves out the errors of no category.
categorizeErrorsWithoutOther(errors) ==
    IF errors = <<>> THEN [category \in {} |-> 0]
    ELSE LET categories == categorizeErrorsWithoutOther(SubSeq(errors, 1, Len(errors) - 1))
             category == getErrorCategory(errors[Len(errors)].message)
         IN  IF category = "Other" THEN categories
             ELSE [k \in DOMAIN categories \cup {category} |->
                     IF k = category
                     THEN (IF k \in DOMAIN categories THEN categories[k] ELSE 0) + 1
                     ELSE categories[k]]

RECURSIVE categorizeErrors(_)
\* The count map: a function whose domain is the set of the categories that occur.
categorizeErrors(errors) ==
    IF errors = <<>> THEN [category \in {} |-> 0]
    ELSE LET categories == categorizeErrors(SubSeq(errors, 1, Len(errors) - 1))
             category == getErrorCategory(errors[Len(errors)].message)
         IN  [k \in DOMAIN categories \cup {category} |->
                 IF k = category
                 THEN (IF k \in DOMAIN categories THEN categories[k] ELSE 0) + 1
                 ELSE categories[k]]

\* errorTypes[category] > n, which is false when errorTypes[category] is undefined.
MoreThan(errorTypes, category, n) ==
    category \in DOMAIN errorTypes /\ errorTypes[category] > n

RECURSIVE groupErrorsByFile(_)
\* The keys of the map in the order of Object.keys (the order of first
\* occurrence), each with the number of its errors.
groupErrorsByFile(errors) ==
    IF errors = <<>> THEN <<>>
    ELSE LET grouped == groupErrorsByFile(SubSeq(errors, 1, Len(errors) - 1))
             file == errors[Len(errors)].file
         IN  IF \E i \in 1..Len(grouped) : grouped[i].file = file
             THEN [i \in 1..Len(grouped) |->
                      IF grouped[i].file = file
                      THEN [grouped[i] EXCEPT !.length = @ + 1]
                      ELSE grouped[i]]
             ELSE Append(grouped, [file |-> file, length |-> 1])

RECURSIVE joinWith(_, _)
\* Array.prototype.join(separator)
joinWith(strings, separator) ==
    IF strings = <<>> THEN <<>>
    ELSE IF Len(strings) = 1 THEN strings[1]
    ELSE strings[1] \o separator \o joinWith(Tail(strings), separator)

PatternUndefined == <<"U","n","d","e","f","i","n","e","d"," ","v","a","r","i","a","b","l","e","s"," ","d","e","t","e","c","t","e","d">>
PatternAsync == <<"A","s","y","n","c","/","P","r","o","m","i","s","e"," ","r","e","l","a","t","e","d"," ","i","s","s","u","e","s">>
PatternModule == <<"M","o","d","u","l","e"," ","i","m","p","o","r","t","/","r","e","q","u","i","r","e"," ","i","s","s","u","e","s">>
PatternNetwork == <<"N","e","t","w","o","r","k","/","t","i","m","e","o","u","t"," ","i","s","s","u","e","s">>
PatternMock == <<"T","e","s","t","i","n","g"," ","m","o","c","k","/","s","p","y"," ","i","s","s","u","e","s">>
PatternTestFile == <<"T","e","s","t"," ","f","i","l","e"," ","s","p","e","c","i","f","i","c"," ","e","r","r","o","r","s">>
PatternConfig == <<"C","o","n","f","i","g","u","r","a","t","i","o","n","/","s","e","t","u","p"," ","r","e","l","a","t","e","d"," ","e","r","r","o","r","s">>
PatternClusteringPrefix == <<"E","r","r","o","r"," ","c","l","u","s","t","e","r","i","n","g"," ","i","n"," ","s","p","e","c","i","f","i","c"," ","f","i","l","e","s",":"," ">>
PatternClustering == <<"E","r","r","o","r"," ","c","l","u","s","t","e","r","i","n","g"," ","i","n"," ","s","p","e","c","i","f","i","c"," ","f","i","l","e","s">>

findPatterns(errors) ==
    LET messages == [i \in 1..Len(errors) |-> toLowerCase(errors[i].message)]
        files == [i \in 1..Len(errors) |-> errors[i].file]
        errorsByFile == groupErrorsByFile(errors)
        filesWithManyErrors ==
            LET many == SelectSeq(errorsByFile, LAMBDA g : g.length > 3)
            IN  [i \in 1..Len(many) |-> many[i].file]
    IN  IfSeq(\E i \in 1..Len(messages) :
                 includes(messages[i], <<"u","n","d","e","f","i","n","e","d">>)
                 \/ includes(messages[i], <<"n","u","l","l">>),
              PatternUndefined)
        \o IfSeq(\E i \in 1..Len(messages) :
                 includes(messages[i], <<"a","s","y","n","c">>)
                 \/ includes(messages[i], <<"p","r","o","m","i","s","e">>)
                 \/ includes(messages[i], <<"a","w","a","i","t">>),
                 PatternAsync)
        \o IfSeq(\E i \in 1..Len(messages) :
                 includes(messages[i], <<"i","m","p","o","r","t">>)
                 \/ includes(messages[i], <<"r","e","q","u","i","r","e">>)
                 \/ includes(messages[i], <<"m","o","d","u","l","e">>),
                 PatternModule)
        \o IfSeq(\E i \in 1..Len(messages) :
                 includes(messages[i], <<"t","i","m","e","o","u","t">>)
                 \/ includes(messages[i], <<"n","e","t","w","o","r","k">>),
                 PatternNetwork)
        \o IfSeq(\E i \in 1..Len(messages) :
                 includes(messages[i], <<"m","o","c","k">>)
                 \/ includes(messages[i], <<"s","p","y">>)
                 \/ includes(messages[i], <<"s","t","u","b">>),
                 PatternMock)
        \o IfSeq(\E i \in 1..Len(files) :
                 includes(files[i], <<"t","e","s","t">>)
                 \/ includes(files[i], <<"s","p","e","c">>),
                 PatternTestFile)
        \o IfSeq(\E i \in 1..Len(files) :
                 includes(files[i], <<"c","o","n","f","i","g">>)
                 \/ includes(files[i], <<"s","e","t","u","p">>),
                 PatternConfig)
        \o IfSeq(Len(filesWithManyErrors) > 0,
                 PatternClusteringPrefix \o joinWith(filesWithManyErrors, <<",", " ">>))

\* A severity that looks at the number of errors alone.
assessSeverityByCountOnly(errors) ==
    IF Len(errors) > 15 THEN "critical"
    ELSE IF Len(errors) > 10 THEN "high"
    ELSE IF Len(errors) > 5 THEN "medium"
    ELSE "low"

\* A severity that is high for exactly three Reference Errors.
assessSeverityExactlyThree(errors) ==
    LET errorCount == Len(errors)
        errorTypes == categorizeErrors(errors)
    IN  IF errorCount > 15 \/ MoreThan(errorTypes, "Syntax Error", 0) THEN "critical"
        ELSE IF errorCount > 10
                \/ ("Reference Error" \in DOMAIN errorTypes /\ errorTypes["Reference Error"] = 3)
        THEN "high"
        ELSE IF errorCount > 5 \/ MoreThan(errorTypes, "Type Error", 1) THEN "medium"
        ELSE "low"

assessSeverity(errors) ==
    LET errorCount == Len(errors)
        errorTypes == categorizeErrors(errors)
    IN  IF errorCount > 15 \/ MoreThan(errorTypes, "Syntax Error", 0) THEN "critical"
        ELSE IF errorCount > 10 \/ MoreThan(errorTypes, "Reference Error", 2) THEN "high"
        ELSE IF errorCount > 5 \/ MoreThan(errorTypes, "Type Error", 1) THEN "medium"
        ELSE "low"

\* Array.prototype.includes
includesElement(array, element) == \E i \in 1..Len(array) : array[i] = element

generateRecommendations(errors) ==
    LET errorTypes == categorizeErrors(errors)
        patterns == findPatterns(errors)
    IN  IfSeq(MoreThan(errorTypes, "Syntax Error", 0),
              "Run a linter (ESLint/Pylint) to catch syntax issues early")
        \o IfSeq(MoreThan(errorTypes, "Syntax Error", 0),
                 "Consider using a code formatter (Prettier/Black) for consistent syntax")
        \o IfSeq(MoreThan(errorTypes, "Type Error", 3),
                 "Consider using TypeScript for better type safety")
        \o IfSeq(MoreThan(errorTypes, "Type Error", 3),
                 "Add runtime type checking or validation")
        \o IfSeq(MoreThan(errorTypes, "Module Error", 0),
                 "Verify all dependencies are installed")
        \o IfSeq(MoreThan(errorTypes, "Module Error", 0),
                 "Check import paths and module resolution")
        \o IfSeq(MoreThan(errorTypes, "Test Assertion", 2),
                 "Review test data setup and expected values")
        \o IfSeq(MoreThan(errorTypes, "Test Assertion", 2),
                 "Consider using more descriptive test assertions")
        \o IfSeq(includesElement(patterns, PatternAsync),
                 "Ensure proper async/await usage and error handling")
        \o IfSeq(includesElement(patterns, PatternClustering),
                 "Focus refactoring efforts on files with multiple errors")

\* The fields of the analysis that depend on the categories and the patterns
\* (context, errorFrequency and affectedLanguages are left out).
analyzeErrors(errors) ==
    [errorCount |-> Len(errors),
     errorTypes |-> categorizeErrors(errors),
     patterns |-> findPatterns(errors),
     severity |-> assessSeverity(errors),
     recommendations |-> generateRecommendations(errors)]

MsgSyntax == <<"S","y","n","t","a","x","E","r","r","o","r",":"," ","x">>
MsgType == <<"t","y","p","e"," ","e","r","r","o","r">>
MsgReference == <<"R","e","f","e","r","e","n","c","e","E","r","r","o","r">>
MsgOther == <<"b","o","o","m">>
MsgTypeUndefined == <<"T","y","p","e","E","r","r","o","r",":"," ","C","a","n","n","o","t"," ","r","e","a","d"," ","p","r","o","p","e","r","t","i","e","s"," ","o","f"," ","u","n","d","e","f","i","n","e","d">>
MsgExpected == <<"E","x","p","e","c","t","e","d"," ","1">>
MsgToBe == <<"t","o","B","e","(","2",")">>
MsgNull == <<"x"," ","i","s"," ","N","U","L","L">>
MsgRequire == <<"r","e","q","u","i","r","e","(","x",")">>
MsgAwait == <<"a","w","a","i","t"," ","i","t">>
MsgTimeout == <<"T","i","m","e","o","u","t">>
MsgEnoent == <<"E","N","O","E","N","T">>
MsgPromiseFile == <<"p","r","o","m","i","s","e"," ","f","i","l","e">>
FileAJs == <<"a",".","j","s">>
FileBTestJs == <<"b","_","t","e","s","t",".","j","s">>
FileSetupPy == <<"s","e","t","u","p",".","p","y">>

RECURSIVE Repeat(_, _)
Repeat(x, n) == IF n = 0 THEN <<>> ELSE <<x>> \o Repeat(x, n - 1)

\* Bounds on the errors of one category in a list.
MaxSyntax == 1
MaxType == 2
MaxReference == 3
MaxOther == 16

\* The error lists: lists with given numbers of errors of four kinds, and the
\* lists of one error for each of the other messages.
ErrorLists ==
    {Repeat(TestError(FileAJs, 1, MsgReference, "jest"), r)
        \o Repeat(TestError(StrUnknown, 0, MsgOther, "generic"), o)
        \o Repeat(TestError(FileBTestJs, 2, MsgType, "jest"), ty)
        \o Repeat(TestError(FileSetupPy, 3, MsgSyntax, "python"), sy) :
        r \in 0..MaxReference, o \in 0..MaxOther, ty \in 0..MaxType, sy \in 0..MaxSyntax}
    \cup {<<TestError(StrUnknown, 0, m, "generic")>> :
             m \in {MsgTypeUndefined, MsgExpected, MsgToBe, MsgNull, MsgRequire, MsgAwait,
                    MsgTimeout, MsgEnoent, MsgPromiseFile}}

\* The errors that may join a list.
ErrorPool ==
    {TestError(FileAJs, 1, MsgReference, "jest"), TestError(StrUnknown, 0, MsgOther, "generic"),
     TestError(FileBTestJs, 2, MsgType, "jest"), TestError(FileSetupPy, 3, MsgSyntax, "python"),
     TestError(StrUnknown, 0, MsgTypeUndefined, "generic")}

AnalyzeProbe(errors) == [fn |-> "analyzeErrors", errors |-> errors]

\* analyzeErrors returns.
analyzeErrorsReturns ==
    /\ probe.fn = "analyzeErrors"
    /\ probeOut = <<>>
    /\ probeOut' = <<analyzeErrors(probe.errors)>>
    /\ UNCHANGED <<workspaceFolders, platform, workspace, customTestCommand,
                   selectedFramework, fileWatcher, testingInterval, status, cycles,
                   lockWrites, probe, caught, batch,
                   document, review, registered>>

InitAnalyze ==
    /\ Idle
    /\ batch = NoBatch
    /\ probe \in {AnalyzeProbe(errors) : errors \in ErrorLists}
    /\ probeOut = <<>>

NextAnalyze == analyzeErrorsReturns

SpecAnalyze == InitAnalyze /\ [][NextAnalyze]_vars

\* The categories in the order of their priority, each with its trigger substrings.
CategoryTriggers ==
    << <<"Syntax Error",
         {<<"s","y","n","t","a","x","e","r","r","o","r">>,
          <<"s","y","n","t","a","x"," ","e","r","r","o","r">>}>>,
       <<"Type Error",
         {<<"t","y","p","e","e","r","r","o","r">>,
          <<"t","y","p","e"," ","e","r","r","o","r">>}>>,
       <<"Reference Error",
         {<<"r","e","f","e","r","e","n","c","e","e","r","r","o","r">>,
          <<"r","e","f","e","r","e","n","c","e"," ","e","r","r","o","r">>}>>,
       <<"Test Assertion",
         {<<"a","s","s","e","r","t","i","o","n","e","r","r","o","r">>,
          <<"a","s","s","e","r","t","i","o","n">>,
          <<"e","x","p","e","c","t","e","d">>,
          <<"t","o","B","e">>,
          <<"t","o","E","q","u","a","l">>}>>,
       <<"Undefined Variable",
         {<<"u","n","d","e","f","i","n","e","d">>,
          <<"n","u","l","l">>,
          <<"c","a","n","n","o","t"," ","r","e","a","d"," ","p","r","o","p","e","r","t","y">>,
          <<"c","a","n","n","o","t"," ","a","c","c","e","s","s"," ","b","e","f","o","r","e"," ","i","n","i","t","i","a","l","i","z","a","t","i","o","n">>}>>,
       <<"Module Error",
         {<<"m","o","d","u","l","e">>,
          <<"i","m","p","o","r","t">>,
          <<"r","e","q","u","i","r","e">>,
          <<"c","a","n","n","o","t"," ","r","e","s","o","l","v","e">>}>>,
       <<"Async Error",
         {<<"p","r","o","m","i","s","e">>,
          <<"a","s","y","n","c">>,
          <<"a","w","a","i","t">>,
          <<"u","n","h","a","n","d","l","e","d"," ","r","e","j","e","c","t","i","o","n">>}>>,
       <<"Network Error",
         {<<"n","e","t","w","o","r","k">>,
          <<"f","e","t","c","h">>,
          <<"x","h","r">>,
          <<"t","i","m","e","o","u","t">>}>>,
       <<"File System Error",
         {<<"f","i","l","e">>,
          <<"p","a","t","h">>,
          <<"d","i","r","e","c","t","o","r","y">>,
          <<"e","n","o","e","n","t">>}>> >>

\* The first category one of whose triggers occurs in the lower-cased message.
FirstTriggered(message) ==
    LET triggered == {k \in 1..Len(CategoryTriggers) :
                         \E trigger \in CategoryTriggers[k][2] :
                            includes(toLowerCase(message), trigger)}
    IN  IF triggered = {} THEN "Other" ELSE CategoryTriggers[SetMin(triggered)][1]

\* The number of the errors of a category.
CountOf(errors, category) ==
    Cardinality({i \in 1..Len(errors) : getErrorCategory(errors[i].message) = category})

RECURSIVE SumOfValues(_, _)
\* The sum of the values of a function over the keys in keys.
SumOfValues(f, keys) ==
    IF keys = {} THEN 0
    ELSE LET k == CHOOSE x \in keys : TRUE
         IN  f[k] + SumOfValues(f, keys \ {k})

\* C15: in the analysis of an error list, the count of each category is the number
\* of the errors of that category, each error's category has a count, and the
\* counts sum to errorCount.
C15_CountsSumToErrorCount ==
    probeOut # <<>> =>
        LET analysis == probeOut[1]
            errors == probe.errors
        IN  /\ \A k \in DOMAIN analysis.errorTypes :
                  analysis.errorTypes[k] = CountOf(errors, k)
            /\ \A i \in 1..Len(errors) :
                  getErrorCategory(errors[i].message) \in DOMAIN analysis.errorTypes
            /\ SumOfValues(analysis.errorTypes, DOMAIN analysis.errorTypes)
                  = analysis.errorCount
            /\ analysis.errorCount = Len(errors)

\* C15's case: a list of fourteen errors or more in four categories, Other among
\* them.
C15_Witness ==
    /\ probeOut # <<>>
    /\ probeOut[1].errorCount >= 14
    /\ DOMAIN probeOut[1].errorTypes
          = {"Syntax Error", "Type Error", "Reference Error", "Other"}

\* The step function of the counts.
StepSeverity(errors) ==
    IF Len(errors) > 15 \/ CountOf(errors, "Syntax Error") > 0 THEN "critical"
    ELSE IF Len(errors) > 10 \/ CountOf(errors, "Reference Error") > 2 THEN "high"
    ELSE IF Len(errors) > 5 \/ CountOf(errors, "Type Error") > 1 THEN "medium"
    ELSE "low"

\* C16: the severity of an analysis is the step function of the number of errors
\* and of the numbers of Syntax, Reference and Type Errors.
C16_SeverityIsStepFunction ==
    probeOut # <<>> => probeOut[1].severity = StepSeverity(probe.errors)

\* C16's case: three Reference Errors among ten errors or fewer, no Type Error and
\* no Syntax Error in the count map: high.
C16_Witness ==
    /\ probeOut # <<>>
    /\ probeOut[1].errorCount <= 10
    /\ DOMAIN probeOut[1].errorTypes = {"Reference Error", "Other"}
    /\ probeOut[1].errorTypes["Reference Error"] = 3
    /\ probeOut[1].severity = "high"

SeverityRank == [low |-> 0, medium |-> 1, high |-> 2, critical |-> 3]

\* C17: one more error, at the end or at the start of the list, never lowers the
\* severity.
C17_SeverityMonotonic ==
    probeOut # <<>> =>
        \A e \in ErrorPool :
            /\ SeverityRank[assessSeverity(Append(probe.errors, e))]
                  >= SeverityRank[probeOut[1].severity]
            /\ SeverityRank[assessSeverity(<<e>> \o probe.errors)]
                  >= SeverityRank[probeOut[1].severity]

\* C17's case: a list of severity high by its three Reference Errors, which one
\* more Reference Error leaves high and a Syntax Error makes critical.
C17_Witness ==
    /\ probeOut # <<>>
    /\ probeOut[1].severity = "high"
    /\ probeOut[1].errorCount = 3
    /\ assessSeverity(Append(probe.errors, TestError(FileAJs, 1, MsgReference, "jest")))
          = "high"
    /\ assessSeverity(Append(probe.errors, TestError(FileSetupPy, 3, MsgSyntax, "python")))
          = "critical"

\* C18: the category of each message is the first category, in the order of
\* priority, one of whose triggers occurs in the lower-cased message, Other when
\* there is none; the count map of the analysis has it.
C18_FirstMatchingCategory ==
    probeOut # <<>> =>
        \A i \in 1..Len(probe.errors) :
            /\ getErrorCategory(probe.errors[i].message)
                  = FirstTriggered(probe.errors[i].message)
            /\ FirstTriggered(probe.errors[i].message) \in DOMAIN probeOut[1].errorTypes

\* C18's case: a message that triggers Type Error and Undefined Variable is a
\* Type Error.
C18_Witness ==
    /\ probeOut # <<>>
    /\ probe.errors = <<TestError(StrUnknown, 0, MsgTypeUndefined, "generic")>>
    /\ includes(toLowerCase(MsgTypeUndefined), <<"u","n","d","e","f","i","n","e","d">>)
    /\ DOMAIN probeOut[1].errorTypes = {"Type Error"}

\* Some file contributes more than three errors.
Clustered(errors) ==
    \E i \in 1..Len(errors) :
        Cardinality({j \in 1..Len(errors) : errors[j].file = errors[i].file}) > 3

\* C20: when the patterns of an analysis hold the clustering entry (some file
\* contributes more than three errors), its recommendations hold the advice to
\* focus refactoring on the files with multiple errors.
C20_ClusteringRecommendsRefactoring ==
    (/\ probeOut # <<>>
     /\ Clustered(probe.errors)
     /\ \E i \in 1..Len(probeOut[1].patterns) :
           startsWith(probeOut[1].patterns[i], PatternClustering))
    => includesElement(probeOut[1].recommendations,
                       "Focus refactoring efforts on files with multiple errors")

-----------------------------------------------------------------------------
(* TestRunner.parseErrors on its own *)

LineStack == <<" "," "," "," ","a","t"," ","f"," ","(","a",".","j","s",":","1","0",":","5",")">>
LineTs == <<"s","r","c","/","b",".","t","s",":","3",":","1"," ","-"," ","b","a","d">>
LinePy == <<" "," ","F","i","l","e"," ","\"","t",".","p","y","\"",","," ","l","i","n","e"," ","3">>
LinePyColon == <<"t",".","p","y",":","4",":"," ","e","r","r","o","r",":"," ","x">>
LineGo == <<"x","_","t","e","s","t",".","g","o",":","7",":"," ","b","a","d">>
LineGeneric == <<" "," ","E","r","r","o","r",":"," ","b","o","o","m"," "," ">>
LineGlyph == <<" "," ","U+2715"," ","a","d","d","s">>
LinePlain == <<"o","k">>
LineEmpty == <<>>
LineJsInPy == <<"F","i","l","e"," ","\"","a",".","j","s",":","1",":","2","\"",","," ","l","i","n","e"," ","3">>
LinePyGo == <<"a",".","p","y",":","1",":"," ","b",".","g","o",":","2",":"," ","f","a","i","l">>

\* The lines of the outputs parsed: a stack frame, a file:line:column of a .ts
\* file, the two Python forms, a Go line, two generic error lines, two lines that
\* match nothing, and two lines that match several families.
OutputLines ==
    {LineStack, LineTs, LinePy, LinePyColon, LineGo, LineGeneric, LineGlyph,
     LinePlain, LineEmpty, LineJsInPy, LinePyGo}

MaxLines == 2

RECURSIVE SeqsUpTo(_, _)
\* The sequences over S of length n at most.
SeqsUpTo(S, n) ==
    IF n = 0 THEN {<<>>}
    ELSE LET shorter == SeqsUpTo(S, n - 1)
         IN  shorter \cup {Append(q, x) : q \in {r \in shorter : Len(r) = n - 1}, x \in S}

ParseProbe(lines) == [fn |-> "parseErrors", lines |-> lines]

\* parseErrors returns, for the output made of the lines joined by '\n'.
parseErrorsReturns ==
    /\ probe.fn = "parseErrors"
    /\ probeOut = <<>>
    /\ probeOut' = <<parseErrors(joinLines(probe.lines))>>
    /\ UNCHANGED <<workspaceFolders, platform, workspace, customTestCommand,
                   selectedFramework, fileWatcher, testingInterval, status, cycles,
                   lockWrites, probe, caught, batch,
                   document, review, registered>>

InitParse ==
    /\ Idle
    /\ batch = NoBatch
    /\ probe \in {ParseProbe(lines) : lines \in SeqsUpTo(OutputLines, MaxLines) \ {<<>>}}
    /\ probeOut = <<>>

NextParse == parseErrorsReturns

SpecParse == InitParse /\ [][NextParse]_vars

\* The first pattern family that matches a line, in the order of priority.
FamilyOf(line) ==
    IF jestMatch(line) # NoMatch THEN "jest"
    ELSE IF pythonMatch(line) # NoMatch THEN "python"
    ELSE IF goMatch(line) # NoMatch THEN "go"
    ELSE IF isErrorLine(line) THEN "generic"
    ELSE "none"

\* The lines that match a family.
MatchingLines(lines) == {i \in 1..Len(lines) : FamilyOf(lines[i]) # "none"}

\* The k-th of the matching lines, in line order.
NthMatching(lines, k) ==
    CHOOSE i \in MatchingLines(lines) :
        Cardinality({j \in MatchingLines(lines) : j <= i}) = k

\* C19: parseErrors emits one TestError for each line that matches a family and
\* none for the others, in line order; the type of each is the first matching
\* family in the order jest, python, go, generic; a generic one has file 'unknown',
\* line 0 and the trimmed line as message; every line number is 0 at least.
C19_OneErrorPerMatchingLine ==
    probeOut # <<>> =>
        LET lines == probe.lines
            errors == probeOut[1]
        IN  /\ Len(errors) = Cardinality(MatchingLines(lines))
            /\ Len(errors) <= Len(lines)
            /\ \A k \in 1..Len(errors) :
                  LET line == lines[NthMatching(lines, k)]
                  IN  /\ errors[k].type = FamilyOf(line)
                      /\ errors[k].line >= 0
                      /\ errors[k].type = "jest" => errors[k].file = jestMatch(line).file
                      /\ errors[k].type = "python" => errors[k].file = pythonMatch(line).file
                      /\ errors[k].type = "go" => errors[k].file = goMatch(line).file
                      /\ errors[k].type = "generic" =>
                            /\ errors[k].file = StrUnknown
                            /\ errors[k].line = 0
                            /\ errors[k].message = trim(line)

\* C19's case: a line that matches the JS/TS and the Python patterns, then a line
\* that matches nothing or a generic error line: one jest error for the first
\* line, and a generic one only for the generic line.
C19_Witness ==
    /\ probeOut # <<>>
    /\ Len(probe.lines) = 2
    /\ probe.lines[1] = LineJsInPy
    /\ pythonMatch(LineJsInPy) # NoMatch
    /\ probeOut[1][1].type = "jest"
    /\ \/ probe.lines[2] = LinePlain /\ Len(probeOut[1]) = 1
       \/ /\ probe.lines[2] = LineGeneric
          /\ Len(probeOut[1]) = 2
          /\ probeOut[1][2] = TestError(StrUnknown, 0, trim(LineGeneric), "generic")

-----------------------------------------------------------------------------
(* AITestingService.extractCodeFix on its own *)

CodeEmpty == <<>>
CodeShort == <<"x",";">>
CodeNine == <<"a"," ","="," ","b","(","c",")",";">>
CodeTen == <<"a"," ","="," ","b","(","c","d",")",";">>
CodeEleven == <<"a"," ","="," ","b","(","c","d","e",")",";">>
CodePadded == <<" "," ","r","e","t","u","r","n"," ","a"," ","+"," ","b",";"," "," ","\n">>
CodeLines == <<"i","f"," ","(","a",")"," ","{","\n"," "," ","b","(","a",")",";","\n","}">>
LangNone == <<"\n">>
LangJs == <<"j","s","\n">>
LangPython == <<"p","y","t","h","o","n","\n">>
BeforeNone == <<>>
BeforeAdvice == <<"G","u","a","r","d"," ","i","t",".","\n">>
BeforeBlank == <<"F","i","x",":","\n","\n">>
AfterNone == <<>>
AfterText == <<"\n","D","o","n","e",".">>
AfterBlock == <<"\n","U+0060","U+0060","U+0060","\n","a","s","s","e","r","t"," ","b","(","a",")"," ","=","="," ","1","\n","U+0060","U+0060","U+0060","\n">>

\* The contents of the first fenced block of the responses, the info strings of
\* its opening fence, and the texts before it and after its closing fence.
Codes == {CodeEmpty, CodeShort, CodeNine, CodeTen, CodeEleven, CodePadded, CodeLines}
Langs == {LangNone, LangJs, LangPython}
Befores == {BeforeNone, BeforeAdvice, BeforeBlank}
Afters == {AfterNone, AfterText, AfterBlock}

\* A response with a fenced block, and the content of the block; a response with
\* none.
Fenced(before, lang, code, after) ==
    [fn |-> "extractCodeFix",
     text |-> before \o StrFence \o lang \o code \o StrFence \o after,
     content |-> <<code>>]

Unfenced(text) == [fn |-> "extractCodeFix", text |-> text, content |-> <<>>]

\* extractCodeFix returns.
extractCodeFixReturns ==
    /\ probe.fn = "extractCodeFix"
    /\ probeOut = <<>>
    /\ probeOut' = <<extractCodeFix(probe.text)>>
    /\ UNCHANGED <<workspaceFolders, platform, workspace, customTestCommand,
                   selectedFramework, fileWatcher, testingInterval, status, cycles,
                   lockWrites, probe, caught, batch,
                   document, review, registered>>

InitExtract ==
    /\ Idle
    /\ batch = NoBatch
    /\ probe \in {Fenced(before, lang, code, after) :
                     before \in Befores, lang \in Langs, code \in Codes, after \in Afters}
                 \cup {Unfenced(text) : text \in {<<>>, StrPlainText, BeforeAdvice}}
    /\ probeOut = <<>>

NextExtract == extractCodeFixReturns

SpecExtract == InitExtract /\ [][NextExtract]_vars

\* C21: extractCodeFix returns the trimmed content of the first fenced block when
\* that content has 10 characters at least, and undefined when the response has
\* no fenced block or the content has fewer than 10 characters.
C21_FixOfTenCharactersOrMore ==
    probeOut # <<>> =>
        IF probe.content = <<>> THEN probeOut[1] = Null
        ELSE LET content == trim(probe.content[1])
             IN  IF Len(content) >= 10 THEN probeOut[1] = content
                 ELSE probeOut[1] = Null

-----------------------------------------------------------------------------
(* showQuickFixOptions and showDiffView, step by step *)

\* The calls that wait for workspace.applyEdit of applyFixToEditor.
Applying == {c \in Slots : cycles[c].pc = "apply"}

\* The suggestion prompt of call c resolves.  selected is "none" (the user
\* dismissed the prompt or the host hid it), "viewAll", "nofix" (a suggestion
\* without a fix) or "fix" (a suggestion with a fix); activeEditor tells whether
\* window.activeTextEditor is defined.  With a fix and an editor showDiffView goes
\* on to open the diff; otherwise showQuickFixOptions returns.
suggestionPicked(c, selected, activeEditor) ==
    /\ cycles[c].pc \in {"quickfix", "quickfixHidden"}
    /\ cycles[c].pc = "quickfixHidden" => selected = "none"
    /\ IF selected = "fix" /\ activeEditor
       THEN /\ cycles' = [cycles EXCEPT ![c].pc = "diff"]
            /\ review' = [review EXCEPT ![c] = <<"fix">>]
       ELSE /\ cycles' = [cycles EXCEPT ![c] = NoCycle]
            /\ review' = [review EXCEPT ![c] = <<>>]
    /\ UNCHANGED <<workspaceFolders, platform, workspace, customTestCommand,
                   selectedFramework, fileWatcher, testingInterval, status, lockWrites,
                   probe, probeOut, caught, batch, document, registered>>

\* openTextDocument, applyEdit on the temporary document and the command
\* vscode.diff have settled in call c: the diff is open and the confirmation is
\* shown, or one of them threw and the catch block of showDiffView returns.
diffSettles(c, opened) ==
    /\ cycles[c].pc = "diff"
    /\ IF opened
       THEN /\ cycles' = [cycles EXCEPT ![c].pc = "confirm"]
            /\ review' = [review EXCEPT ![c] = Append(review[c], "diff")]
       ELSE /\ cycles' = [cycles EXCEPT ![c] = NoCycle]
            /\ review' = [review EXCEPT ![c] = <<>>]
    /\ UNCHANGED <<workspaceFolders, platform, workspace, customTestCommand,
                   selectedFramework, fileWatcher, testingInterval, status, lockWrites,
                   probe, probeOut, caught, batch, document, registered>>

\* A confirmation that applies the fix whatever the answer.
confirmationAppliesAnyAnswer(c, apply) ==
    /\ cycles[c].pc = "confirm"
    /\ document + Cardinality(Applying) < MaxEdits
    /\ cycles' = [cycles EXCEPT ![c].pc = "apply"]
    /\ review' = [review EXCEPT ![c] = Append(review[c], apply)]
    /\ UNCHANGED <<workspaceFolders, platform, workspace, customTestCommand,
                   selectedFramework, fileWatcher, testingInterval, status, lockWrites,
                   probe, probeOut, caught, batch, document, registered>>

\* The confirmation of call c resolves with the button the user chose, or with
\* "dismissed".  On 'Apply Fix' applyFixToEditor asks the host for the edit.  The
\* user applies MaxEdits fixes at most.
confirmationResolves(c, apply) ==
    /\ cycles[c].pc = "confirm"
    /\ apply = "Apply Fix" => document + Cardinality(Applying) < MaxEdits
    /\ IF apply = "Apply Fix"
       THEN /\ cycles' = [cycles EXCEPT ![c].pc = "apply"]
            /\ review' = [review EXCEPT ![c] = Append(review[c], apply)]
       ELSE /\ cycles' = [cycles EXCEPT ![c] = NoCycle]
            /\ review' = [review EXCEPT ![c] = <<>>]
    /\ UNCHANGED <<workspaceFolders, platform, workspace, customTestCommand,
                   selectedFramework, fileWatcher, testingInterval, status, lockWrites,
                   probe, probeOut, caught, batch, document, registered>>

\* The edit of applyFixToEditor has settled in call c: the document has changed,
\* or the host refused the edit; showQuickFixOptions and runTestCycle return.
applySettles(c, applied) ==
    /\ cycles[c].pc = "apply"
    /\ document' = IF applied THEN document + 1 ELSE document
    /\ cycles' = [cycles EXCEPT ![c] = NoCycle]
    /\ review' = [review EXCEPT ![c] = <<>>]
    /\ UNCHANGED <<workspaceFolders, platform, workspace, customTestCommand,
                   selectedFramework, fileWatcher, testingInterval, status, lockWrites,
                   probe, probeOut, caught, batch, registered>>

Selections == {"none", "viewAll", "nofix", "fix"}

Answers == {"Apply Fix", "Cancel", "dismissed"}

NextReview ==
    \/ Next
    \/ \E c \in Slots : \E selected \in Selections : \E activeEditor \in BOOLEAN :
          suggestionPicked(c, selected, activeEditor)
    \/ \E c \in Slots : \E opened \in BOOLEAN : diffSettles(c, opened)
    \/ \E c \in Slots : \E apply \in Answers : confirmationResolves(c, apply)
    \/ \E c \in Slots : \E applied \in BOOLEAN : applySettles(c, applied)

SpecReview == Init /\ [][NextReview]_vars

\* C22: the document changes only in a step of a call whose user picked a
\* suggestion with a fix, then saw the diff open, then answered 'Apply Fix', in
\* this order; a step from the suggestion prompt, from the opening of the diff or
\* from the confirmation leaves the document as it is.
C22_EditOnlyAfterApplyFix ==
    [][/\ document' # document
          => \E c \in Slots :
                /\ Stepped(c)
                /\ cycles[c].pc = "apply"
                /\ review[c] = <<"fix", "diff", "Apply Fix">>
       /\ \A c \in Slots :
             (Stepped(c) /\ cycles[c].pc \in {"quickfix", "quickfixHidden", "diff", "confirm"})
             => document' = document]_vars

\* C22's case: a fix has been applied to the document.
C22_Witness == document = 1 /\ \A c \in Slots : ~InFlight(c)

\* Call c takes a step in which getTestCommand resolves no command: detection
\* finds no candidate, or the framework prompt resolves (dismissed by the user or
\* hidden by the host) and no test process follows.
ResolvesNoCommand(c) ==
    /\ Stepped(c)
    /\ \/ cycles[c].pc = "detect" /\ detectAllFrameworks(workspace, platform) = <<>>
       \/ cycles[c].pc = "pickHidden"
       \/ cycles[c].pc = "pick" /\ cycles'[c].pc \notin {"exec", "pickHidden"}

\* C23: when getTestCommand resolves no command, runTests returns hasErrors =
\* false, no errors and the output 'No test framework detected'; the call ends in
\* that step, without a test process and without a call of the AI backends, the
\* lock and its history are as before, and the status is success.
C23_NoCommandNoRunNoBackend ==
    [][\A c \in Slots :
          ResolvesNoCommand(c)
          => /\ noFrameworkResult = TestResults(FALSE, <<>>, StrNoFramework)
             /\ cycles'[c] = NoCycle
             /\ selectedFramework' = selectedFramework
             /\ lockWrites' = lockWrites
             /\ status' = "success"]_vars

\* C23's case: with no custom command, an empty lock and a workspace without any
\* marker, the calls have ended and the status is success.
C23_Witness ==
    /\ workspaceFolders
    /\ ~Truthy(trim(customTestCommand))
    /\ selectedFramework = Null
    /\ lockWrites = 0
    /\ detectAllFrameworks(workspace, platform) = <<>>
    /\ \A c \in Slots : ~InFlight(c)
    /\ status = "success"

\* Call c is at position to after the step and was not before it.
Enters(c, to) == cycles'[c].pc = to /\ cycles[c].pc # to

\* C24: in every call the steps follow the order select the command, run the
\* tests (the result holds the parsed errors), ask the AI backends, present the
\* suggestions.  The backends are asked only in the step in which the test run
\* of the call returns, with hasErrors = true and with the errors of that run at
\* hand for the analysis; a call whose run passes ends with status success.
C24_StepsInOrder ==
    [][\A c \in Slots :
          /\ Enters(c, "detect") => cycles[c].pc = "none"
          /\ Enters(c, "pick") => cycles[c].pc = "detect"
          /\ Enters(c, "exec") => cycles[c].pc \in {"none", "detect", "pick"}
          /\ Enters(c, "suggest")
             => /\ cycles[c].pc = "exec"
                /\ cycles'[c].res.hasErrors
                /\ \E o \in ExecOutcomes : cycles'[c].res = execResults[o]
                /\ status' = "error"
          /\ Enters(c, "quickfix") => cycles[c].pc = "suggest" /\ cycles[c].res.hasErrors
          /\ (cycles[c].pc = "exec" /\ Stepped(c) /\ ~cycles'[c].res.hasErrors)
             => cycles'[c] = NoCycle /\ status' = "success"]_vars

\* C24's case: a call has gone through all the steps and presents the suggestions
\* for the errors of its run.
C24_Witness ==
    \E c \in Slots :
        /\ cycles[c].pc = "quickfix"
        /\ cycles[c].res.hasErrors
        /\ cycles[c].res.errors # <<>>

\* The message names a matcher, triggers none of Syntax, Type and Reference Error,
\* and holds neither 'assertion' nor 'expected'.
NamesMatcherOnly(message) ==
    /\ \/ includes(message, <<"t","o","B","e">>)
       \/ includes(message, <<"t","o","E","q","u","a","l">>)
    /\ \A k \in 1..3 : \A trigger \in CategoryTriggers[k][2] :
          ~includes(toLowerCase(message), trigger)
    /\ ~includes(toLowerCase(message), <<"a","s","s","e","r","t","i","o","n">>)
    /\ ~includes(toLowerCase(message), <<"e","x","p","e","c","t","e","d">>)

\* C25: a message that names the matcher toBe or toEqual, triggers no category
\* of higher priority and holds neither 'assertion' nor 'expected' is a Test
\* Assertion, in getErrorCategory and in the count map of the analysis.
C25_MatcherNameIsTestAssertion ==
    probeOut # <<>> =>
        \A i \in 1..Len(probe.errors) :
            NamesMatcherOnly(probe.errors[i].message)
            => /\ getErrorCategory(probe.errors[i].message) = "Test Assertion"
               /\ "Test Assertion" \in DOMAIN probeOut[1].errorTypes

\* C26: a process that exits with code 0 and whose stdout followed by its stderr
\* holds no failure indicator has a result without hasErrors, whatever it wrote to
\* stderr.
C26_CleanExitWithoutIndicatorPasses ==
    probeOut # <<>> =>
        LET o == probe.outcome
        IN  (/\ o.ok
             /\ \A i \in 1..Len(failureIndicators) :
                   ~includes(toLowerCase(o.stdout \o o.stderr),
                             toLowerCase(failureIndicators[i])))
            => ~probeOut[1].hasErrors

\* C29: a result that holds a parsed error has hasErrors.
C29_ParsedErrorsMeanHasErrors ==
    probeOut # <<>> => (probeOut[1].errors # <<>> => probeOut[1].hasErrors)

\* C30: the host holds one file watcher and one interval timer at most; while
\* the extension holds neither, none is registered, and no file event and no
\* timer starts a call; a step registers one only when the extension holds
\* neither, so a start command given while one exists registers nothing.
C30_AtMostOneWatcherAndTimer ==
    /\ [](/\ registered.watchers <= 1
          /\ registered.timers <= 1
          /\ (~fileWatcher /\ ~testingInterval)
             => /\ registered = NoneRegistered
                /\ ~ENABLED onDidChange
                /\ ~ENABLED onDidCreate
                /\ ~ENABLED onInterval)
    /\ [][(registered'.watchers > registered.watchers
           \/ registered'.timers > registered.timers)
          => (~fileWatcher /\ ~testingInterval /\ (fileWatcher' \/ testingInterval'))]_vars

\* C30's case: one watcher and one timer are registered, and a call triggered
\* meanwhile has ended.
C30_Witness ==
    /\ registered = Registered(1, 1)
    /\ fileWatcher /\ testingInterval
    /\ status = "success"

\* The calls that are inside runTests: detecting, prompting for the framework or
\* waiting for the test process.
RunningTests == {c \in Slots : cycles[c].pc \in {"detect", "pick", "pickHidden", "exec"}}

\* C28: while a call is inside runTests the status is running.
C28_RunningWhileTestsExecute == RunningTests # {} => status = "running"

-----------------------------------------------------------------------------
(* The extension when everything it waits for settles *)

\* What a call in slot c waits for settles in the end: the file probes of the
\* detection, the test process (killed after 30 s), the AI backends (each post
\* times out after 10 s), the edits and commands asked of the host, and the
\* prompts, which the user answers or dismisses.
Settles(c) ==
    /\ WF_vars(detectionSettles(c))
    /\ WF_vars(\E selected \in Choices : pickerResolves(c, selected))
    /\ WF_vars(\E o \in ExecOutcomes : execSettles(c, o))
    /\ WF_vars(\E answered \in SUBSET Services : suggestionsSettle(c, answered))
    /\ WF_vars(\/ quickFixResolves(c)
               \/ \E selected \in Selections : \E activeEditor \in BOOLEAN :
                     suggestionPicked(c, selected, activeEditor))
    /\ WF_vars(\E opened \in BOOLEAN : diffSettles(c, opened))
    /\ WF_vars(\E apply \in Answers : confirmationResolves(c, apply))
    /\ WF_vars(\E applied \in BOOLEAN : applySettles(c, applied))

SpecLive == Init /\ [][NextReview]_vars /\ \A c \in Slots : Settles(c)

\* C27: every call of runTestCycle in flight returns in the end, and a status of
\* running shown while a call is in flight gives way to another status.
C27_EveryCycleFinishes ==
    /\ \A c \in Slots : InFlight(c) ~> ~InFlight(c)
    /\ (status = "running" /\ CyclesInFlight # {}) ~> status # "running"

\* C27's case: a call has gone all the way to the edit of the document, every
\* call has returned and the status is error.
C27_Witness ==
    /\ document > 0
    /\ CyclesInFlight = {}
    /\ status = "error"

====
